---- MODULE Spec2Model ----
(***************************************************************************)
(* A model of the libsevenzip Python bindings: the handle wrappers         *)
(* (Archive, Writer) of examples/python/sevenzip.py, the result-code       *)
(* boundary (_check_result) of both bindings, and the scoped helpers       *)
(* built on them.  The native engine is external: every native call is a   *)
(* nondeterministic input (its result code, the detail it leaves in the    *)
(* last-error slot, the handle it allocates).  The model keeps, for every   *)
(* handle the engine gave out, what the bindings have done with it.        *)
(***************************************************************************)
EXTENDS Integers, Sequences, FiniteSets, TLC

(***************************************************************************)
(* Bounds of the model.                                                    *)
(***************************************************************************)
\* The most reader and writer handles the engine gives out in a behaviour.
MaxHandles == 2
\* Where the per-handle call counters stop counting.
MaxCount == 2
\* The largest result code the native layer is taken to return.
MaxResult == 17
\* The most inputs handed to create_archive.
MaxFiles == 2
\* The most calls of the one-call helpers in a behaviour.
MaxRuns == 1
\* The most items in an archive the engine reads.
MaxItems == 2
\* The width of a c_size_t in the model (the build's is 64).
SizeBits == 2
\* What a c_size_t counts modulo.
SizeModulus == 2 ^ SizeBits

(***************************************************************************)
(* sevenzip.py: class SzResult(IntEnum).                                   *)
(***************************************************************************)
SzResult_OK == 0
SzResult_FAIL == 1
SzResult_INVALID_ARGUMENT == 5
SzResult_CORRUPTED_ARCHIVE == 7
SzResult_WRONG_PASSWORD == 8
SzResult_INDEX_OUT_OF_RANGE == 10
SzResult_WRITE_ERROR == 13
SzResult_DISK_FULL == 16
\* The values that have a member of the enumeration.
SzResultMembers == SzResult_OK .. SzResult_DISK_FULL

(***************************************************************************)
(* sevenzip_ffi.py: class SzResult(IntEnum).                               *)
(***************************************************************************)
Ffi_OK == 0
Ffi_CORRUPTED_ARCHIVE == 7
Ffi_WRONG_PASSWORD == 8
Ffi_ABORTED == 10
Ffi_INVALID_STATE == 14
FfiResultMembers == Ffi_OK .. Ffi_INVALID_STATE

(***************************************************************************)
(* The native side, as the bindings see it.                                *)
(***************************************************************************)
\* Result codes a native call may return (restype c_int).
NativeResults == 0 .. MaxResult
\* The wrappers treat every non-success code alike but for SzResult(result),
\* which has a member for it or not: the lifecycle actions draw the
\* engine's answer from success, a code with a member and a code without.
UnknownResult == SzResult_DISK_FULL + 1
LifecycleResults == {SzResult_OK, SzResult_WRITE_ERROR, UnknownResult}
\* The detail a failing call of the lifecycle actions leaves in the slot.
LifecycleDetails == {"d1"}
\* What sz_get_last_error_message may hold: "" stands for NULL or b"".
Details == {"", "d1"}
\* A failing native call leaves a detail in the last-error slot; a
\* successful one leaves the slot as it was.
SlotAfter(slot, res, d) == IF res = 0 THEN slot ELSE d
\* One native call: the function, the handle (or buffer) passed to it, the
\* handle (or buffer) it produced (0: none), and the other arguments it was
\* given: arg (a path, as its components, or a password, level or index as a
\* one-element sequence) and name (the path inside the archive).
CallWith(fn, h, out, arg, name) == [fn |-> fn, h |-> h, out |-> out, arg |-> arg, name |-> name]
\* A call whose other arguments play no part.
Call(fn, h, out) == CallWith(fn, h, out, <<>>, "")

(***************************************************************************)
(* Exceptions.  `kind` is the Python class; a SevenZipError carries its    *)
(* code; the message is kept as its parts: the detail string read from     *)
(* the slot, the operation name used when the slot is empty, the literal   *)
(* text of a guard's message, and the number printed as "(code=N)".        *)
(***************************************************************************)
NoExc == [kind |-> "none", code |-> 0, detail |-> "", text |-> "", shown |-> -1]
ValueError(v) ==
    [kind |-> "ValueError", code |-> 0, detail |-> "", text |-> "not a valid SzResult",
     shown |-> v]
UserError ==
    [kind |-> "UserError", code |-> 0, detail |-> "", text |-> "raised by the block body",
     shown |-> -1]

\* SevenZipError.__init__(message, code=SzResult.FAIL) of sevenzip.py.
SevenZipError(detail, text, shown, code) ==
    [kind |-> "SevenZipError", code |-> code, detail |-> detail, text |-> text,
     shown |-> shown]
\* raise SevenZipError("...") from a wrapper's guard: the code defaults.
GuardError(text) == SevenZipError("", text, -1, SzResult_FAIL)

Raised(e) == e.kind # "none"

\* SzResult(result) with WRONG_PASSWORD an alias of CORRUPTED_ARCHIVE.
SzResultOf_PasswordAsCorrupted(result) ==
    IF result = SzResult_WRONG_PASSWORD THEN SzResult_CORRUPTED_ARCHIVE
    ELSE IF result \in SzResultMembers THEN result ELSE -1

\* SzResult(result): the member with that value, or ValueError.
SzResultOf(result) == IF result \in SzResultMembers THEN result ELSE -1

\* _check_result(result, operation) of sevenzip.py, with the slot's content
\* at the time of the call: NoExc when it returns.
CheckResult(result, operation, slot) ==
    IF result = SzResult_OK THEN NoExc
    ELSE IF SzResultOf(result) = -1 THEN ValueError(result)
    ELSE IF slot # "" THEN SevenZipError(slot, "", result, SzResultOf(result))
    ELSE SevenZipError("", operation, result, SzResultOf(result))

\* The native calls _check_result(result, operation) of sevenzip.py makes, in
\* order: the slot is read before anything else is done with a failure.
CheckResultCalls(result) ==
    IF result = SzResult_OK THEN <<>> ELSE <<"sz_get_last_error_message">>

\* sevenzip_ffi.py: raised when .decode is called on the None that ctypes
\* returns for a NULL char pointer.
AttributeError ==
    [kind |-> "AttributeError", code |-> 0, detail |-> "",
     text |-> "NoneType has no attribute decode", shown |-> -1]

\* SevenZipError.__init__(result, message=None) of sevenzip_ffi.py: the
\* message is sz_error_to_string(result), then ": " and the slot's detail
\* when there is one.  isNull: the accessor answers an empty slot with
\* NULL rather than with an empty string.
FfiSevenZipError(result, slot, isNull) ==
    IF slot = "" /\ isNull THEN AttributeError
    ELSE [kind |-> "SevenZipError", code |-> result, detail |-> slot,
          text |-> "sz_error_to_string", shown |-> -1]

\* _check_result(result) of sevenzip_ffi.py.
FfiCheckResult(result, slot, isNull) ==
    IF result = Ffi_OK THEN NoExc
    ELSE IF result \notin FfiResultMembers THEN ValueError(result)
    ELSE FfiSevenZipError(result, slot, isNull)

\* The native calls _check_result(result) of sevenzip_ffi.py makes, in
\* order: SzResult(result) comes first and may raise; SevenZipError.__init__
\* then asks for the text of the code and after that reads the slot.
FfiCheckResultCalls(result) ==
    IF result = Ffi_OK \/ result \notin FfiResultMembers THEN <<>>
    ELSE <<"sz_error_to_string", "sz_get_last_error_message">>

(***************************************************************************)
(* State.                                                                  *)
(***************************************************************************)
VARIABLES
    archive,     \* the Archive wrapper the caller holds: [handle]
    writer,      \* the Writer wrapper the caller holds: [handle, finalized]
    scope,       \* inside `with Writer.create(...) as writer:`, the handle
                 \* the block's writer was created with; 0 outside
    whist,       \* what has happened to `writer`: [finOk, cancelCalled]
    nextHandle,  \* the next handle the native side gives out
    native,      \* per handle given out: what has been done with it
    lastError,   \* the native last-error slot
    outcome,     \* what the most recent operation did
    check,       \* one application of _check_result: its inputs and result
    fx,          \* the most recent call of a one-call helper: its arguments,
                 \* the native calls it issued, what it returned or raised,
                 \* what the engine and the file system saw of it
    threads      \* two threads, each with a wrapper of its own: what each
                 \* holds, which one took the last step and the native
                 \* calls of that step

vars ==
    <<archive, writer, scope, whist, nextHandle, native, lastError, outcome, check, fx,
      threads>>

\* Archive.__init__ / Writer.__init__ (0 stands for None).
NewArchive == [handle |-> 0]
NewWriter == [handle |-> 0, finalized |-> FALSE]
NewHist == [finOk |-> FALSE, cancelCalled |-> FALSE]

\* The result of one wrapper method: the wrapper after it, the native calls
\* it issued, the exception it raised, the last native result it saw (-1:
\* none), the handle of the wrapper it returned (0: none), the slot after,
\* and the value it returned (<<>>: None).
Result(w, issued, exc, res, ret, slot) ==
    [w |-> w, issued |-> issued, exc |-> exc, res |-> res, ret |-> ret, slot |-> slot,
     val |-> <<>>]
\* The same with a value returned.
Returning(r, val) == [r EXCEPT !.val = val]


(***************************************************************************)
(* sevenzip.py: class Archive.                                             *)
(***************************************************************************)
\* Archive.open without the call of _check_result.
Archive_open_SkipsCheck(res, d, slot, next) ==
    LET out == IF res = SzResult_OK THEN next ELSE 0
    IN  Result([handle |-> out], <<Call("sz_archive_open", 0, out)>>, NoExc, res, out,
               SlotAfter(slot, res, d))

\* Archive.open: the wrapper is built first, the handle is stored in it
\* only after _check_result has returned.
Archive_open(res, d, slot, next) ==
    LET out == IF res = SzResult_OK THEN next ELSE 0
        slot1 == SlotAfter(slot, res, d)
        exc == CheckResult(res, "open archive", slot1)
        issued == <<Call("sz_archive_open", 0, out)>>
    IN  IF Raised(exc)
        THEN Result(NewArchive, issued, exc, res, 0, slot1)
        ELSE Result([handle |-> out], issued, NoExc, res, out, slot1)

\* Archive.close without `self._handle = None`.
Archive_close_KeepsHandle(a, slot) ==
    IF a.handle # 0
    THEN Result(a, <<Call("sz_archive_close", a.handle, 0)>>, NoExc, -1, 0, slot)
    ELSE Result(a, <<>>, NoExc, -1, 0, slot)

\* Archive.close.
Archive_close(a, slot) ==
    IF a.handle # 0
    THEN Result([handle |-> 0], <<Call("sz_archive_close", a.handle, 0)>>, NoExc, -1, 0, slot)
    ELSE Result(a, <<>>, NoExc, -1, 0, slot)

\* Archive.__exit__ without the call of close().
Archive_exit_SkipsClose(a, slot) == Result(a, <<>>, NoExc, -1, 0, slot)

\* Archive.__exit__: close(), then return False.
Archive_exit(a, slot) == Archive_close(a, slot)

\* Archive.item_count: count is what the engine stored in the out
\* parameter; it is returned when the call succeeded.
Archive_item_count(a, res, d, slot, count) ==
    IF a.handle = 0
    THEN Result(a, <<>>, GuardError("archive not open"), -1, 0, slot)
    ELSE LET slot1 == SlotAfter(slot, res, d)
             exc == CheckResult(res, "get item count", slot1)
             r == Result(a, <<Call("sz_archive_get_item_count", a.handle, 0)>>, exc, res, 0,
                         slot1)
         IN  IF Raised(exc) THEN r ELSE Returning(r, <<count>>)

\* An argument declared c_size_t: ctypes keeps the low SizeBits bits of the
\* Python integer and checks no overflow.
c_size_t(v) == v % SizeModulus

\* class Item: the fields of the SzItemInfo record the engine filled in,
\* converted.  A NULL or empty path is "" (here <<>>), the flags become
\* booleans, crc is None (here <<>>) when has_crc is 0.
Item(info) ==
    [index |-> info.index,
     path |-> info.path,
     size |-> info.size,
     is_directory |-> info.is_directory # 0,
     crc |-> IF info.has_crc # 0 THEN <<info.crc>> ELSE <<>>]

\* Archive.get_item_info: info is the record the engine filled in.
Archive_get_item_info(a, index, res, d, slot, info) ==
    IF a.handle = 0
    THEN Result(a, <<>>, GuardError("archive not open"), -1, 0, slot)
    ELSE LET slot1 == SlotAfter(slot, res, d)
             exc == CheckResult(res, "get item info", slot1)
             r == Result(a, <<CallWith("sz_archive_get_item_info", a.handle, 0,
                                       <<c_size_t(index)>>, "")>>,
                         exc, res, 0, slot1)
         IN  IF Raised(exc) THEN r ELSE Returning(r, <<Item(info)>>)

\* data_ptr after a successful sz_archive_extract_to_memory: the buffer the
\* engine allocated.  It is no handle, and is freed before the method ends.
DataPtr == -1

\* Archive.extract_to_memory with the free before the copy.
Archive_extract_to_memory_FreesFirst(a, index, res, d, slot, data) ==
    IF a.handle = 0
    THEN Result(a, <<>>, GuardError("archive not open"), -1, 0, slot)
    ELSE LET buf == IF res = SzResult_OK THEN DataPtr ELSE 0
             slot1 == SlotAfter(slot, res, d)
             exc == CheckResult(res, "extract to memory", slot1)
             extract == <<CallWith("sz_archive_extract_to_memory", a.handle, buf,
                                   <<c_size_t(index)>>, "")>>
         IN  IF Raised(exc)
             THEN Result(a, extract, exc, res, 0, slot1)
             ELSE Returning(
                      Result(a, extract \o <<Call("sz_memory_free", buf, 0),
                                             Call("string_at", buf, 0)>>,
                             NoExc, res, 0, slot1),
                      <<data>>)

\* Archive.extract_to_memory: the buffer the engine returns (data: its
\* bytes) is copied (ctypes.string_at) and then freed in the finally clause.
Archive_extract_to_memory(a, index, res, d, slot, data) ==
    IF a.handle = 0
    THEN Result(a, <<>>, GuardError("archive not open"), -1, 0, slot)
    ELSE LET buf == IF res = SzResult_OK THEN DataPtr ELSE 0
             slot1 == SlotAfter(slot, res, d)
             exc == CheckResult(res, "extract to memory", slot1)
             extract == <<CallWith("sz_archive_extract_to_memory", a.handle, buf,
                                   <<c_size_t(index)>>, "")>>
         IN  IF Raised(exc)
             THEN Result(a, extract, exc, res, 0, slot1)
             ELSE Returning(
                      Result(a, extract \o <<Call("string_at", buf, 0),
                                             Call("sz_memory_free", buf, 0)>>,
                             NoExc, res, 0, slot1),
                      <<data>>)

(***************************************************************************)
(* sevenzip.py: class Writer.                                              *)
(***************************************************************************)
\* Writer.create keeping the handle in one place for all wrappers: each
\* holds the first handle the engine gave out.
Writer_create_SharesHandle(res, d, slot, next) ==
    LET slot1 == SlotAfter(slot, res, d)
        exc == CheckResult(res, "create writer", slot1)
        issued == <<Call("sz_writer_create", 0, IF res = SzResult_OK THEN next ELSE 0)>>
    IN  IF Raised(exc)
        THEN Result(NewWriter, issued, exc, res, 0, slot1)
        ELSE Result([handle |-> 1, finalized |-> FALSE], issued, NoExc, res, 1, slot1)

\* Writer.create.
Writer_create(res, d, slot, next) ==
    LET out == IF res = SzResult_OK THEN next ELSE 0
        slot1 == SlotAfter(slot, res, d)
        exc == CheckResult(res, "create writer", slot1)
        issued == <<Call("sz_writer_create", 0, out)>>
    IN  IF Raised(exc)
        THEN Result(NewWriter, issued, exc, res, 0, slot1)
        ELSE Result([handle |-> out, finalized |-> FALSE], issued, NoExc, res, out, slot1)

\* The shared body without the `if self._finalized` guard.
WriterCall_SkipsFinalizedGuard(w, fn, operation, arg, name, res, d, slot) ==
    IF w.handle = 0
    THEN Result(w, <<>>, GuardError("writer not initialized"), -1, 0, slot)
    ELSE LET slot1 == SlotAfter(slot, res, d)
         IN  Result(w, <<CallWith(fn, w.handle, 0, arg, name)>>,
                    CheckResult(res, operation, slot1), res, 0, slot1)

\* The body the five mutating methods share: the two guards, one native
\* call on the handle with the method's arguments, _check_result.
WriterCall(w, fn, operation, arg, name, res, d, slot) ==
    IF w.handle = 0
    THEN Result(w, <<>>, GuardError("writer not initialized"), -1, 0, slot)
    ELSE IF w.finalized
    THEN Result(w, <<>>, GuardError("archive already finalized"), -1, 0, slot)
    ELSE LET slot1 == SlotAfter(slot, res, d)
         IN  Result(w, <<CallWith(fn, w.handle, 0, arg, name)>>,
                    CheckResult(res, operation, slot1), res, 0, slot1)

\* Path(p).name: the last component of a path ("" for the empty path).
PathName(p) == IF p = <<>> THEN "" ELSE p[Len(p)]

\* Writer.add_file without the default: an archive_path left out reaches the
\* engine as the empty path.
Writer_add_file_PassesEmpty(w, file_path, archive_path, res, d, slot) ==
    WriterCall(w, "sz_writer_add_file", "add file", file_path, archive_path, res, d, slot)

\* Writer.add_file(file_path, archive_path=None): the path inside the
\* archive is archive_path, or the file's base name when it is None or "".
Writer_add_file(w, file_path, archive_path, res, d, slot) ==
    WriterCall(w, "sz_writer_add_file", "add file", file_path,
               IF archive_path # "" THEN archive_path ELSE PathName(file_path), res, d, slot)

\* Writer.add_directory(dir_path, recursive): `name` holds int(recursive).
Writer_add_directory(w, dir_path, recursive, res, d, slot) ==
    WriterCall(w, "sz_writer_add_directory", "add directory", dir_path,
               IF recursive THEN "1" ELSE "0", res, d, slot)

\* addMemory as its contract states it: an empty archive path is refused
\* with the invalid-argument code; otherwise the engine answers res.
EngineAddMemory(archive_path, res) ==
    IF archive_path = "" THEN SzResult_INVALID_ARGUMENT ELSE res

\* Writer.add_memory without the call of _check_result.
Writer_add_memory_IgnoresResult(w, data, archive_path, res, d, slot) ==
    IF w.handle = 0
    THEN Result(w, <<>>, GuardError("writer not initialized"), -1, 0, slot)
    ELSE IF w.finalized
    THEN Result(w, <<>>, GuardError("archive already finalized"), -1, 0, slot)
    ELSE Result(w, <<CallWith("sz_writer_add_memory", w.handle, 0, <<data>>, archive_path)>>,
                NoExc, res, 0, SlotAfter(slot, res, d))

\* Writer.add_memory(data, archive_path).
Writer_add_memory(w, data, archive_path, res, d, slot) ==
    WriterCall(w, "sz_writer_add_memory", "add memory", <<data>>, archive_path, res, d, slot)

\* Writer.set_password(password).
Writer_set_password(w, password, res, d, slot) ==
    WriterCall(w, "sz_writer_set_password", "set password", <<password>>, "", res, d, slot)

\* class SzCompressionLevel(IntEnum) of sevenzip.py.
SzCompressionLevel_NONE == 0
SzCompressionLevel_FAST == 1
SzCompressionLevel_NORMAL == 2
SzCompressionLevel_MAXIMUM == 3
SzCompressionLevel_ULTRA == 4

\* An argument that is a str, and one that is a member of an IntEnum (which
\* ctypes converts to the member's value); isinstance(x, str).
Str(s) == [str |-> s]
Member(v) == [value |-> v]
IsStr(x) == "str" \in DOMAIN x

\* level.lower(), on the strings callers pass.
Lower(s) ==
    CASE s = "Ultra" -> "ultra"
      [] s = "FAST" -> "fast"
      [] OTHER -> s

\* level_map.get(level.lower(), NORMAL) with an unknown name giving NONE.
LevelOf_UnknownIsNone(level) ==
    CASE Lower(level) = "fast" -> SzCompressionLevel_FAST
      [] Lower(level) = "normal" -> SzCompressionLevel_NORMAL
      [] Lower(level) = "maximum" -> SzCompressionLevel_MAXIMUM
      [] Lower(level) = "ultra" -> SzCompressionLevel_ULTRA
      [] OTHER -> SzCompressionLevel_NONE

\* level_map.get(level.lower(), SzCompressionLevel.NORMAL).
LevelOf(level) ==
    CASE Lower(level) = "none" -> SzCompressionLevel_NONE
      [] Lower(level) = "fast" -> SzCompressionLevel_FAST
      [] Lower(level) = "normal" -> SzCompressionLevel_NORMAL
      [] Lower(level) = "maximum" -> SzCompressionLevel_MAXIMUM
      [] Lower(level) = "ultra" -> SzCompressionLevel_ULTRA
      [] OTHER -> SzCompressionLevel_NORMAL

\* Writer.set_compression_level(level): a str goes through level_map, any
\* other level is handed to the engine as it is.
Writer_set_compression_level(w, level, res, d, slot) ==
    WriterCall(w, "sz_writer_set_compression_level", "set compression level",
               <<IF IsStr(level) THEN LevelOf(level.str) ELSE level.value>>, "", res, d, slot)

\* Writer.finalize marking the writer finalized before _check_result runs.
Writer_finalize_MarksBeforeCheck(w, res, d, slot) ==
    IF w.handle = 0
    THEN Result(w, <<>>, GuardError("writer not initialized"), -1, 0, slot)
    ELSE IF w.finalized
    THEN Result(w, <<>>, NoExc, -1, 0, slot)
    ELSE LET slot1 == SlotAfter(slot, res, d)
         IN  Result([w EXCEPT !.finalized = TRUE], <<Call("sz_writer_finalize", w.handle, 0)>>,
                    CheckResult(res, "finalize", slot1), res, 0, slot1)

\* Writer.finalize: returns at once when already finalized.
Writer_finalize(w, res, d, slot) ==
    IF w.handle = 0
    THEN Result(w, <<>>, GuardError("writer not initialized"), -1, 0, slot)
    ELSE IF w.finalized
    THEN Result(w, <<>>, NoExc, -1, 0, slot)
    ELSE LET slot1 == SlotAfter(slot, res, d)
             exc == CheckResult(res, "finalize", slot1)
             issued == <<Call("sz_writer_finalize", w.handle, 0)>>
         IN  IF Raised(exc)
             THEN Result(w, issued, exc, res, 0, slot1)
             ELSE Result([w EXCEPT !.finalized = TRUE], issued, NoExc, res, 0, slot1)

\* Writer.cancel without `self._handle = None`.
Writer_cancel_KeepsHandle(w, slot) ==
    IF w.handle # 0
    THEN Result([w EXCEPT !.finalized = TRUE],
                <<Call("sz_writer_cancel", w.handle, 0)>>, NoExc, -1, 0, slot)
    ELSE Result(w, <<>>, NoExc, -1, 0, slot)

\* Writer.cancel.
Writer_cancel(w, slot) ==
    IF w.handle # 0
    THEN Result([handle |-> 0, finalized |-> TRUE],
                <<Call("sz_writer_cancel", w.handle, 0)>>, NoExc, -1, 0, slot)
    ELSE Result(w, <<>>, NoExc, -1, 0, slot)

\* Writer.__exit__ without the `if exc_type is None` test: it finalizes on
\* every exit.
Writer_exit_AlwaysFinalizes(w, blockExc, res, d, slot) ==
    LET f == Writer_finalize(w, res, d, slot)
        c == Writer_cancel(f.w, f.slot)
    IN  IF Raised(f.exc) THEN f
        ELSE Result(c.w, f.issued \o c.issued, blockExc, f.res, 0, c.slot)

\* Writer.__exit__(exc_type, ...): finalize() when the block raised
\* nothing, then cancel(); it returns False, so the block's exception
\* propagates.  An exception raised by finalize() leaves __exit__ at once.
Writer_exit(w, blockExc, res, d, slot) ==
    LET f == IF Raised(blockExc) THEN Result(w, <<>>, NoExc, -1, 0, slot)
             ELSE Writer_finalize(w, res, d, slot)
        c == Writer_cancel(f.w, f.slot)
    IN  IF Raised(f.exc) THEN f
        ELSE Result(c.w, f.issued \o c.issued, blockExc, f.res, 0, c.slot)



(***************************************************************************)
(* sevenzip.py: create_archive.                                            *)
(***************************************************************************)
\* The file system the helpers read: two files with the same base name in
\* different directories, and a directory holding one file.
SourceFiles == {<<"d1", "a.txt">>, <<"d2", "a.txt">>}
SourceDirs == {<<"d3">>}
Sources == SourceFiles \cup SourceDirs
\* Path.is_dir().
is_dir(p) == p \in SourceDirs

\* One method call of the block's body: the method, its path argument and
\* its string argument.
Step(method, path, text) == [method |-> method, path |-> path, text |-> text]

\* The body of create_archive with the password set after the adds.
Script_PasswordLast(files, password, level) ==
    <<Step("set_compression_level", <<>>, level)>>
    \o [i \in 1 .. Len(files) |->
           IF is_dir(files[i]) THEN Step("add_directory", files[i], "")
           ELSE Step("add_file", files[i], "")]
    \o (IF password # "" THEN <<Step("set_password", <<>>, password)>> ELSE <<>>)

\* The methods the body of create_archive calls, in order: the level, the
\* password when one is given (not None, not empty), one add per input in
\* list order, add_directory(recursive=True) for a directory and add_file
\* for anything else.
Script(files, password, level) ==
    <<Step("set_compression_level", <<>>, level)>>
    \o (IF password # "" THEN <<Step("set_password", <<>>, password)>> ELSE <<>>)
    \o [i \in 1 .. Len(files) |->
           IF is_dir(files[i]) THEN Step("add_directory", files[i], "")
           ELSE Step("add_file", files[i], "")]

WriterMethod(step, w, res, d, slot) ==
    CASE step.method = "set_compression_level" ->
             Writer_set_compression_level(w, Str(step.text), res, d, slot)
      [] step.method = "set_password" -> Writer_set_password(w, step.text, res, d, slot)
      [] step.method = "add_directory" -> Writer_add_directory(w, step.path, TRUE, res, d, slot)
      [] OTHER -> Writer_add_file(w, step.path, "", res, d, slot)

\* The engine's answer to the k-th result-returning call of a run in which
\* call number failAt (0: none) fails with res.
Answer(k, failAt, res) == IF k = failAt THEN res ELSE SzResult_OK

\* The body of the `with` block from step i of the script on: it stops at
\* the first method that raises.  acc: the result so far.  The k-th native
\* answer belongs to step k - 1 (the first is sz_writer_create's).
RECURSIVE RunBlock(_, _, _, _, _, _)
RunBlock(acc, script, i, failAt, res, d) ==
    IF i > Len(script) \/ Raised(acc.exc) THEN acc
    ELSE LET m == WriterMethod(script[i], acc.w, Answer(i + 1, failAt, res), d, acc.slot)
         IN  RunBlock(Result(m.w, acc.issued \o m.issued, m.exc, m.res, 0, m.slot),
                      script, i + 1, failAt, res, d)

\* create_archive(output_path, files, format, password, level).
create_archive(files, password, level, failAt, res, d, slot, next) ==
    LET script == Script(files, password, level)
        c == Writer_create(Answer(1, failAt, res), d, slot, next)
        b == RunBlock(Result(c.w, <<>>, NoExc, c.res, 0, c.slot), script, 1, failAt, res, d)
        x == Writer_exit(b.w, b.exc, Answer(Len(script) + 2, failAt, res), d, b.slot)
    IN  IF Raised(c.exc) THEN c
        ELSE Result(x.w, c.issued \o b.issued \o x.issued, x.exc,
                    IF x.res # -1 THEN x.res ELSE b.res, 0, x.slot)

(***************************************************************************)
(* The engine's side of a reader, from its interface contract: an archive  *)
(* is a list of entries, protected by a password or not.                   *)
(***************************************************************************)

\* An entry of an archive: its path inside the archive (as components; a
\* first component "/" makes it absolute), whether it is a directory, its
\* bytes (one byte for a file, none for a directory).
Entry(path, isDir, data) == [path |-> path, is_dir |-> isDir, data |-> data]
\* The entries an archive may hold: one made by a well-behaved writer may
\* hold the first three; one of unknown origin any of them.
Entries ==
    {Entry(<<"a.txt">>, FALSE, "A"), Entry(<<"sub">>, TRUE, ""),
     Entry(<<"sub", "b.txt">>, FALSE, "B"),
     Entry(<<"..", "a.txt">>, FALSE, "C"), Entry(<<"/", "a.txt">>, FALSE, "D")}
\* The archives the engine may be asked to open.
Archives ==
    [items : UNION {[1 .. n -> Entries] : n \in 0 .. MaxItems}, password : {"", "pw"}]

\* The files of the file system below a directory, relative to it and in
\* the order a walk finds them, and the bytes of each file.
Children(d) == IF d = <<"d3">> THEN <<(<<"c.txt">>)>> ELSE <<>>
FileData(p) ==
    CASE p = <<"d1", "a.txt">> -> "1"
      [] p = <<"d2", "a.txt">> -> "2"
      [] p = <<"d3", "c.txt">> -> "3"
      [] OTHER -> ""

\* The entries the engine stores for one call of a writer: addFile stores
\* the file's bytes under the archive path it is given; addDirectory stores
\* the directory under its base name and the files below it under that
\* name.
StoredBy(c) ==
    CASE c.fn = "sz_writer_add_file" -> <<Entry(<<c.name>>, FALSE, FileData(c.arg))>>
      [] c.fn = "sz_writer_add_directory" ->
             <<Entry(<<PathName(c.arg)>>, TRUE, "")>>
             \o [k \in DOMAIN Children(c.arg) |->
                    Entry(<<PathName(c.arg)>> \o Children(c.arg)[k], FALSE,
                          FileData(c.arg \o Children(c.arg)[k]))]
      [] OTHER -> <<>>

\* The archive finalize writes after the calls of `issued`: the entries of
\* the adds in order, protected by the password set last.
RECURSIVE Stored(_)
Stored(issued) ==
    IF issued = <<>> THEN [items |-> <<>>, password |-> ""]
    ELSE LET before == Stored(SubSeq(issued, 1, Len(issued) - 1))
             c == issued[Len(issued)]
         IN  [items |-> before.items \o StoredBy(c),
              password |-> IF c.fn = "sz_writer_set_password" THEN c.arg[1]
                           ELSE before.password]

\* An answer of the engine: the result code and what it stored in the out
\* parameter.
Ans(res, out) == [res |-> res, out |-> out]
\* A fault: the at-th result-returning call of a run (0: none) fails with
\* res and leaves d in the slot, whatever the engine would have answered.
Fault(at, res, d) == [at |-> at, res |-> res, d |-> d]
Faulted(k, fault, ans) == IF k = fault.at THEN Ans(fault.res, ans.out) ELSE ans

\* SzItemInfo(): the record before the engine filled it in.
NoInfo == [index |-> 0, path |-> <<>>, size |-> 0, crc |-> 0, has_crc |-> 0, is_directory |-> 0]
\* The record the engine fills in for item i of an archive.
ItemInfoOf(arc, i) ==
    [index |-> i, path |-> arc.items[i + 1].path,
     size |-> IF arc.items[i + 1].is_dir THEN 0 ELSE 1,
     crc |-> 0, has_crc |-> 0, is_directory |-> IF arc.items[i + 1].is_dir THEN 1 ELSE 0]

\* getItemCount.
EngineItemCount(arc) == Ans(SzResult_OK, Len(arc.items))
\* getItemInfo(index): IndexOutOfRange for index >= itemCount.
EngineGetItemInfo(arc, i) ==
    IF i < Len(arc.items) THEN Ans(SzResult_OK, ItemInfoOf(arc, i))
    ELSE Ans(SzResult_INDEX_OUT_OF_RANGE, NoInfo)
\* extractToMemory(index): IndexOutOfRange, or WrongPassword when the archive
\* is protected and the session has not been given its password.
EngineExtractToMemory(arc, i, unlocked) ==
    IF i >= Len(arc.items) THEN Ans(SzResult_INDEX_OUT_OF_RANGE, "")
    ELSE IF arc.password # "" /\ ~unlocked THEN Ans(SzResult_WRONG_PASSWORD, "")
    ELSE Ans(SzResult_OK, arc.items[i + 1].data)

(***************************************************************************)
(* A reader session of sevenzip.py: the wrapper, the calls issued so far,  *)
(* the exception raised, the slot, the number k of result-returning        *)
(* native calls made, the value of the last step, the items yielded so     *)
(* far, what each step of a block's body gave, the files written, whether  *)
(* the engine holds the password.                                          *)
(***************************************************************************)
Session(a, issued, exc, slot, k) ==
    [a |-> a, issued |-> issued, exc |-> exc, slot |-> slot, k |-> k, val |-> <<>>,
     yielded |-> <<>>, vals |-> <<>>, written |-> <<>>, unlocked |-> FALSE]

\* The session after a method of the wrapper with result r.
After(st, r) ==
    [st EXCEPT !.a = r.w, !.issued = @ \o r.issued, !.exc = r.exc, !.slot = r.slot,
               !.k = IF r.res # -1 THEN @ + 1 ELSE @, !.val = r.val]

\* archive.item_count, archive.get_item_info(index) and
\* archive.extract_to_memory(index) with the engine's answers.
DoItemCount(st, arc, fault) ==
    LET ans == Faulted(st.k + 1, fault, EngineItemCount(arc))
    IN  After(st, Archive_item_count(st.a, ans.res, fault.d, st.slot, ans.out))

DoGetItemInfo(st, arc, fault, index) ==
    LET ans == Faulted(st.k + 1, fault, EngineGetItemInfo(arc, c_size_t(index)))
    IN  After(st, Archive_get_item_info(st.a, index, ans.res, fault.d, st.slot, ans.out))

DoExtractToMemory(st, arc, fault, index) ==
    LET ans == Faulted(st.k + 1, fault, EngineExtractToMemory(arc, c_size_t(index), st.unlocked))
    IN  After(st, Archive_extract_to_memory(st.a, index, ans.res, fault.d, st.slot, ans.out))

DoClose(st) == After(st, Archive_close(st.a, st.slot))

\* Archive.__iter__ from index 1 on: the first item is never yielded.
RECURSIVE IterFrom(_, _, _, _, _)
Archive_iter_SkipsFirst(st, arc, fault) ==
    LET c == DoItemCount(st, arc, fault)
    IN  IF Raised(c.exc) THEN c ELSE IterFrom(c, arc, fault, 1, c.val[1])

\* for i in range(count): yield self.get_item_info(i), from i on, consumed
\* to its end or to the first exception.
IterFrom(st, arc, fault, i, count) ==
    IF i >= count \/ Raised(st.exc) THEN st
    ELSE LET g == DoGetItemInfo(st, arc, fault, i)
         IN  IterFrom(IF Raised(g.exc) THEN g ELSE [g EXCEPT !.yielded = @ \o g.val],
                      arc, fault, i + 1, count)

\* Archive.__iter__, consumed by list(archive): the count is read once, then
\* one get_item_info per index in ascending order.
Archive_iter(st, arc, fault) ==
    LET c == DoItemCount(st, arc, fault)
    IN  IF Raised(c.exc) THEN c ELSE IterFrom(c, arc, fault, 0, c.val[1])

(***************************************************************************)
(* sevenzip.py: `with Archive.open(path, password) as archive:` and        *)
(* extract_archive.                                                        *)
(***************************************************************************)
\* One statement of a block's body: a method of the archive and its index,
\* list(archive), or a raise of the body's own.
Stmt(m, i) == [m |-> m, i |-> i]

\* The body from statement n on.  catching: every statement but the body's
\* own raise sits in a try/except that swallows what it raises; otherwise the
\* first exception leaves the block.
RECURSIVE RunReaderBlock(_, _, _, _, _, _)
RunReaderBlock(st, body, n, catching, arc, fault) ==
    IF n > Len(body) \/ Raised(st.exc) THEN st
    ELSE LET stmt == body[n]
             s0 == [st EXCEPT !.yielded = <<>>]
             r == CASE stmt.m = "item_count" -> DoItemCount(s0, arc, fault)
                    [] stmt.m = "get_item_info" -> DoGetItemInfo(s0, arc, fault, stmt.i)
                    [] stmt.m = "extract_to_memory" -> DoExtractToMemory(s0, arc, fault, stmt.i)
                    [] stmt.m = "list" -> Archive_iter(s0, arc, fault)
                    [] stmt.m = "close" -> DoClose(s0)
                    [] OTHER -> [s0 EXCEPT !.exc = UserError]
             rec == [m |-> stmt.m, i |-> stmt.i, exc |-> r.exc, pre |-> st.a.handle,
                     post |-> r.a.handle,
                     val |-> IF stmt.m = "list" THEN r.yielded ELSE r.val]
         IN  RunReaderBlock([r EXCEPT !.vals = @ \o <<rec>>,
                                      !.exc = IF catching /\ stmt.m # "raise" THEN NoExc ELSE @],
                            body, n + 1, catching, arc, fault)

\* What a helper that opens a reader did: the calls, the exception that
\* left the helper, the exception that left its body (before the cleanup),
\* the handle it opened (0: none), what the steps gave, the files written.
Helped(issued, exc, bodyExc, handle, vals, written, slot) ==
    [issued |-> issued, exc |-> exc, bodyExc |-> bodyExc, handle |-> handle, vals |-> vals,
     written |-> written, slot |-> slot]

\* Archive.open(path, password): the password takes no part in it.
OpenSession(fault, slot, next) ==
    LET ans == Faulted(1, fault, Ans(SzResult_OK, next))
        o == Archive_open(ans.res, fault.d, slot, ans.out)
    IN  Session(o.w, o.issued, o.exc, o.slot, 1)

\* Leaving the `with` block of a session: __exit__ closes and returns False,
\* so what the body raised goes on.
ExitSession(st, handle) ==
    LET x == Archive_exit(st.a, st.slot)
    IN  Helped(st.issued \o x.issued, IF Raised(x.exc) THEN x.exc ELSE st.exc, st.exc, handle,
               st.vals, st.written, x.slot)

\* with Archive.open(path, password) as archive: body
ArchiveBlock(arc, password, body, catching, fault, slot, next) ==
    LET o == OpenSession(fault, slot, next)
    IN  IF Raised(o.exc) THEN Helped(o.issued, o.exc, o.exc, 0, <<>>, <<>>, o.slot)
        ELSE ExitSession(RunReaderBlock(o, body, 1, catching, arc, fault), o.a.handle)

\* output_dir / item.path of pathlib: an absolute right operand replaces the
\* left one.
PathJoin(base, rel) == IF rel # <<>> /\ rel[1] = "/" THEN rel ELSE base \o rel

\* The file a path names once its ".." components are followed (the parent
\* of the root is the root).
RECURSIVE Resolve(_, _)
Resolve(done, rest) ==
    IF rest = <<>> THEN done
    ELSE IF rest[1] = ".."
    THEN Resolve(IF Len(done) > 1 THEN SubSeq(done, 1, Len(done) - 1) ELSE done, Tail(rest))
    ELSE Resolve(Append(done, rest[1]), Tail(rest))

\* Whether path p names a file below directory base.
IsUnder(p, base) ==
    LET q == Resolve(<<>>, p)
        b == Resolve(<<>>, base)
    IN  Len(q) > Len(b) /\ SubSeq(q, 1, Len(b)) = b

\* write_bytes failing.
OSError ==
    [kind |-> "OSError", code |-> 0, detail |-> "", text |-> "write failed", shown |-> -1]

\* The loop of extract_archive without the `if item.is_directory: continue`
\* test: a directory item is extracted and written like a file.
RECURSIVE ExtractFrom_ExtractsDirectories(_, _, _, _, _, _, _)
ExtractFrom_ExtractsDirectories(st, arc, fault, output_dir, wfail, i, count) ==
    IF i >= count \/ Raised(st.exc) THEN st
    ELSE LET g == DoGetItemInfo(st, arc, fault, i)
             item == g.val[1]
             e == DoExtractToMemory(g, arc, fault, item.index)
             output_path == PathJoin(output_dir, item.path)
             w == IF Len(e.written) + 1 = wfail THEN [e EXCEPT !.exc = OSError]
                  ELSE [e EXCEPT !.written =
                            @ \o <<[path |-> output_path, data |-> e.val[1]]>>]
         IN  IF Raised(g.exc) THEN g
             ELSE IF Raised(e.exc) THEN e
             ELSE ExtractFrom_ExtractsDirectories(w, arc, fault, output_dir, wfail, i + 1, count)

\* The loop of extract_archive from index i on: the generator asks for item
\* i, a directory is skipped, a file is extracted to memory and written to
\* output_dir / item.path.  wfail: the write that fails (0: none).
RECURSIVE ExtractFrom(_, _, _, _, _, _, _)
ExtractFrom(st, arc, fault, output_dir, wfail, i, count) ==
    IF i >= count \/ Raised(st.exc) THEN st
    ELSE LET g == DoGetItemInfo(st, arc, fault, i)
             item == g.val[1]
             e == DoExtractToMemory(g, arc, fault, item.index)
             output_path == PathJoin(output_dir, item.path)
             w == IF Len(e.written) + 1 = wfail THEN [e EXCEPT !.exc = OSError]
                  ELSE [e EXCEPT !.written =
                            @ \o <<[path |-> output_path, data |-> e.val[1]]>>]
         IN  IF Raised(g.exc) THEN g
             ELSE IF item.is_directory
             THEN ExtractFrom(g, arc, fault, output_dir, wfail, i + 1, count)
             ELSE IF Raised(e.exc) THEN e
             ELSE ExtractFrom(w, arc, fault, output_dir, wfail, i + 1, count)

\* extract_archive(archive_path, output_dir, password).
extract_archive(arc, output_dir, password, fault, wfail, slot, next) ==
    LET o == OpenSession(fault, slot, next)
        c == DoItemCount(o, arc, fault)
        b == IF Raised(c.exc) THEN c
             ELSE ExtractFrom(c, arc, fault, output_dir, wfail, 0, c.val[1])
    IN  IF Raised(o.exc) THEN Helped(o.issued, o.exc, o.exc, 0, <<>>, <<>>, o.slot)
        ELSE ExitSession(b, o.a.handle)

(***************************************************************************)
(* sevenzip_ffi.py: class SevenZip.                                        *)
(***************************************************************************)
\* The largest member of sevenzip_ffi.py's SzFormat.
Ffi_Format_XZ == 6

\* The caller's progress callback: given or None, and what its n-th
\* invocation returns.
Callback(given, rets) == [given |-> given, rets |-> rets]
NoCallback == Callback(FALSE, <<>>)

\* The trampoline that tells the engine to go on whatever the callback
\* returned.
wrapper_NeverCancels(cb, n, completed, total) ==
    [ret |-> 1, seen |-> <<completed, total>>]

\* The trampoline handing the callback (total, completed).
wrapper_SwapsArguments(cb, n, completed, total) ==
    [ret |-> IF cb.rets[n] THEN 1 ELSE 0, seen |-> <<total, completed>>]

\* def wrapper(completed, total, user_data), called for the n-th time: what
\* the callback is given and what the engine gets back, 1 to go on and 0 to
\* cancel.
wrapper(cb, n, completed, total) ==
    [ret |-> IF cb.rets[n] THEN 1 ELSE 0, seen |-> <<completed, total>>]

\* extractAll as its contract states it: the items are extracted in order;
\* after each file the callback, if there is one, is told the bytes done
\* and the bytes in all; once it has asked to cancel, no further item is
\* started and the result is the cancellation code.  `run` is the trace so
\* far: the items started, the notifications made, what the callback saw
\* and what the trampoline answered.
NoEngineRun == [res |-> Ffi_OK, started |-> <<>>, notified |-> <<>>, seen |-> <<>>, rets |-> <<>>]

RECURSIVE TotalSize(_)
TotalSize(items) ==
    IF items = <<>> THEN 0
    ELSE (IF Head(items).is_dir THEN 0 ELSE 1) + TotalSize(Tail(items))

RECURSIVE ExtractAllFrom(_, _, _, _, _)
ExtractAllFrom(arc, cb, i, completed, run) ==
    IF i >= Len(arc.items) THEN run
    ELSE IF arc.items[i + 1].is_dir THEN ExtractAllFrom(arc, cb, i + 1, completed, run)
    ELSE LET done == completed + 1
             t == wrapper(cb, Len(run.notified) + 1, done, TotalSize(arc.items))
             went == [run EXCEPT !.started = Append(@, i)]
             told == [went EXCEPT !.notified = Append(@, <<done, TotalSize(arc.items)>>),
                                  !.seen = Append(@, t.seen),
                                  !.rets = Append(@, t.ret)]
         IN  IF ~cb.given THEN ExtractAllFrom(arc, cb, i + 1, done, went)
             ELSE IF t.ret = 0 THEN [told EXCEPT !.res = Ffi_ABORTED]
             ELSE ExtractAllFrom(arc, cb, i + 1, done, told)

EngineExtractAll(arc, unlocked, cb) ==
    IF arc.password # "" /\ ~unlocked THEN [NoEngineRun EXCEPT !.res = Ffi_WRONG_PASSWORD]
    ELSE ExtractAllFrom(arc, cb, 0, 0, NoEngineRun)

\* What a helper of class SevenZip did: as for the helpers of sevenzip.py,
\* with the engine's trace of the extraction.
FfiHelped(issued, exc, bodyExc, handle, vals, run, slot) ==
    [issued |-> issued, exc |-> exc, bodyExc |-> bodyExc, handle |-> handle, vals |-> vals,
     written |-> <<>>, slot |-> slot, run |-> run]

\* One result-returning call of a helper of class SevenZip, the k-th: the
\* slot after it and what _check_result raises.
FfiStep(k, fault, ans, slot) ==
    LET a == Faulted(k, fault, ans)
        slot1 == SlotAfter(slot, a.res, fault.d)
    IN  [res |-> a.res, out |-> a.out, slot |-> slot1,
         exc |-> FfiCheckResult(a.res, slot1, FALSE)]

\* The callback invocations of an extraction, as calls made while
\* sz_archive_extract_all runs.
Invocations(run, h) == [n \in 1 .. Len(run.seen) |-> Call("progress_callback", h, 0)]

\* SevenZip.extract without the try/finally: the handle is closed only when
\* nothing failed.
SevenZip_extract_ClosesOnSuccess(arc, password, cb, fault, slot, next) ==
    LET o == FfiStep(1, fault, Ans(Ffi_OK, next), slot)
        h == IF o.res = Ffi_OK THEN o.out ELSE 0
        hasPw == password # ""
        p == IF hasPw THEN FfiStep(2, fault, Ans(Ffi_OK, 0), o.slot)
             ELSE [res |-> Ffi_OK, out |-> 0, slot |-> o.slot, exc |-> NoExc]
        unlocked == hasPw /\ password = arc.password
        kx == IF hasPw THEN 3 ELSE 2
        run == IF kx = fault.at THEN NoEngineRun ELSE EngineExtractAll(arc, unlocked, cb)
        x == FfiStep(kx, fault, Ans(run.res, 0), p.slot)
        opened == <<Call("sz_archive_open", 0, h)>>
        setpw == IF hasPw THEN <<CallWith("sz_archive_set_password", h, 0, <<password>>, "")>>
                 ELSE <<>>
        all == <<Call("sz_archive_extract_all", h, 0)>> \o Invocations(run, h)
        close == <<Call("sz_archive_close", h, 0)>>
    IN  IF Raised(o.exc) THEN FfiHelped(opened, o.exc, o.exc, 0, <<>>, NoEngineRun, o.slot)
        ELSE IF Raised(p.exc)
        THEN FfiHelped(opened \o setpw, p.exc, p.exc, h, <<>>, NoEngineRun, p.slot)
        ELSE IF Raised(x.exc)
        THEN FfiHelped(opened \o setpw \o all, x.exc, x.exc, h, <<>>, run, x.slot)
        ELSE FfiHelped(opened \o setpw \o all \o close, x.exc, x.exc, h, <<>>, run, x.slot)

\* SevenZip.extract(archive_path, dest_dir, password, progress_callback):
\* open; then, in a try block whose finally clause closes the handle, the
\* password if one is given and sz_archive_extract_all with the trampoline.
SevenZip_extract(arc, password, cb, fault, slot, next) ==
    LET o == FfiStep(1, fault, Ans(Ffi_OK, next), slot)
        h == IF o.res = Ffi_OK THEN o.out ELSE 0
        hasPw == password # ""
        p == IF hasPw THEN FfiStep(2, fault, Ans(Ffi_OK, 0), o.slot)
             ELSE [res |-> Ffi_OK, out |-> 0, slot |-> o.slot, exc |-> NoExc]
        unlocked == hasPw /\ password = arc.password
        kx == IF hasPw THEN 3 ELSE 2
        run == IF kx = fault.at THEN NoEngineRun ELSE EngineExtractAll(arc, unlocked, cb)
        x == FfiStep(kx, fault, Ans(run.res, 0), p.slot)
        opened == <<Call("sz_archive_open", 0, h)>>
        setpw == IF hasPw THEN <<CallWith("sz_archive_set_password", h, 0, <<password>>, "")>>
                 ELSE <<>>
        all == <<Call("sz_archive_extract_all", h, 0)>> \o Invocations(run, h)
        close == <<Call("sz_archive_close", h, 0)>>
    IN  IF Raised(o.exc) THEN FfiHelped(opened, o.exc, o.exc, 0, <<>>, NoEngineRun, o.slot)
        ELSE IF Raised(p.exc)
        THEN FfiHelped(opened \o setpw \o close, p.exc, p.exc, h, <<>>, NoEngineRun, p.slot)
        ELSE FfiHelped(opened \o setpw \o all \o close, x.exc, x.exc, h, <<>>, run, x.slot)

\* getInfo: the aggregate record of an archive whose format tag is fmt and
\* whose packed size is `packed` (headers are packed bytes too: an archive
\* of empty files has some).
EngineGetInfo(arc, fmt, packed) ==
    Ans(Ffi_OK, [format |-> fmt, item_count |-> Len(arc.items),
                 total_size |-> TotalSize(arc.items), packed_size |-> packed])

\* The ratio without the guard: the division, whatever the divisor.
compression_ratio_Unguarded(packed_size, total_size) == <<packed_size, total_size>>

\* info.packed_size / info.total_size if info.total_size > 0 else 0: the
\* quotient is kept as the pair <<dividend, divisor>>, the integer 0 as
\* <<0>>; a pair whose divisor is 0 stands for ZeroDivisionError.
compression_ratio(packed_size, total_size) ==
    IF total_size > 0 THEN <<packed_size, total_size>> ELSE <<0>>

\* SzFormat(info.format): the member with that value, or ValueError.
FfiFormatOf(info) ==
    IF info.format \in 0 .. Ffi_Format_XZ THEN NoExc ELSE ValueError(info.format)

\* SevenZip.get_archive_info(archive_path): open; then, in a try block whose
\* finally clause closes the handle, sz_archive_get_info and the dictionary.
SevenZip_get_archive_info(arc, fmt, packed, fault, slot, next) ==
    LET o == FfiStep(1, fault, Ans(Ffi_OK, next), slot)
        h == IF o.res = Ffi_OK THEN o.out ELSE 0
        g == FfiStep(2, fault, EngineGetInfo(arc, fmt, packed), o.slot)
        info == g.out
        conv == FfiFormatOf(info)
        dict == [format |-> info.format, item_count |-> info.item_count,
                 total_size |-> info.total_size, packed_size |-> info.packed_size,
                 compression_ratio |-> compression_ratio(info.packed_size, info.total_size)]
        opened == <<Call("sz_archive_open", 0, h)>>
        rest == <<Call("sz_archive_get_info", h, 0), Call("sz_archive_close", h, 0)>>
    IN  IF Raised(o.exc) THEN FfiHelped(opened, o.exc, o.exc, 0, <<>>, NoEngineRun, o.slot)
        ELSE IF Raised(g.exc)
        THEN FfiHelped(opened \o rest, g.exc, g.exc, h, <<>>, NoEngineRun, g.slot)
        ELSE IF Raised(conv)
        THEN FfiHelped(opened \o rest, conv, conv, h, <<>>, NoEngineRun, g.slot)
        ELSE FfiHelped(opened \o rest, NoExc, NoExc, h, <<dict>>, NoEngineRun, g.slot)

\* item_info.path.decode('utf-8') failing: the bytes are not UTF-8.
UnicodeDecodeError ==
    [kind |-> "UnicodeDecodeError", code |-> 0, detail |-> "", text |-> "invalid utf-8",
     shown |-> -1]

\* What list_items does with the record of item i: the reading of its
\* fields into the dictionary (item_info.path gives a copy of the native
\* string) and sz_item_info_free(byref(item_info)).
ReadOf(i) == CallWith("_SzItemInfo", 0, 0, <<i>>, "")
FreeOf(i) == CallWith("sz_item_info_free", 0, 0, <<i>>, "")

\* The loop of list_items without the inner try/finally: the record is
\* freed only when the dictionary has been built.
RECURSIVE ListFrom_LeaksOnCopyFailure(_, _, _, _, _, _, _)
ListFrom_LeaksOnCopyFailure(acc, arc, fault, bad, h, i, count) ==
    IF i >= count \/ Raised(acc.exc) THEN acc
    ELSE LET g == FfiStep(3 + i, fault, EngineGetItemInfo(arc, i), acc.slot)
             dict == [index |-> g.out.index, path |-> g.out.path, size |-> g.out.size,
                      crc |-> IF g.out.has_crc # 0 THEN <<g.out.crc>> ELSE <<>>,
                      is_directory |-> g.out.is_directory # 0]
             asked == <<CallWith("sz_archive_get_item_info", h, 0, <<i>>, "")>>
         IN  IF Raised(g.exc)
             THEN [acc EXCEPT !.issued = @ \o asked, !.exc = g.exc, !.slot = g.slot]
             ELSE IF i + 1 = bad
             THEN [acc EXCEPT !.issued = @ \o asked \o <<ReadOf(i)>>,
                              !.exc = UnicodeDecodeError, !.slot = g.slot]
             ELSE ListFrom_LeaksOnCopyFailure(
                      [acc EXCEPT !.issued = @ \o asked \o <<ReadOf(i), FreeOf(i)>>,
                                  !.vals = Append(@, dict), !.slot = g.slot],
                      arc, fault, bad, h, i + 1, count)

\* The loop of list_items from index i on: sz_archive_get_item_info, the
\* dictionary of the item, sz_item_info_free in the inner finally clause.
\* acc: the calls, the list, the exception and the slot so far.  bad: the
\* item whose path does not decode (counted from 1; 0: none).
RECURSIVE ListFrom(_, _, _, _, _, _, _)
ListFrom(acc, arc, fault, bad, h, i, count) ==
    IF i >= count \/ Raised(acc.exc) THEN acc
    ELSE LET g == FfiStep(3 + i, fault, EngineGetItemInfo(arc, i), acc.slot)
             dict == [index |-> g.out.index, path |-> g.out.path, size |-> g.out.size,
                      crc |-> IF g.out.has_crc # 0 THEN <<g.out.crc>> ELSE <<>>,
                      is_directory |-> g.out.is_directory # 0]
             asked == <<CallWith("sz_archive_get_item_info", h, 0, <<i>>, "")>>
         IN  IF Raised(g.exc)
             THEN [acc EXCEPT !.issued = @ \o asked, !.exc = g.exc, !.slot = g.slot]
             ELSE IF i + 1 = bad
             THEN [acc EXCEPT !.issued = @ \o asked \o <<ReadOf(i), FreeOf(i)>>,
                              !.exc = UnicodeDecodeError, !.slot = g.slot]
             ELSE ListFrom([acc EXCEPT !.issued = @ \o asked \o <<ReadOf(i), FreeOf(i)>>,
                                       !.vals = Append(@, dict), !.slot = g.slot],
                           arc, fault, bad, h, i + 1, count)

\* SevenZip.list_items(archive_path): open; then, in a try block whose
\* finally clause closes the handle, the count and the loop.
SevenZip_list_items(arc, fault, bad, slot, next) ==
    LET o == FfiStep(1, fault, Ans(Ffi_OK, next), slot)
        h == IF o.res = Ffi_OK THEN o.out ELSE 0
        c == FfiStep(2, fault, EngineItemCount(arc), o.slot)
        opened == <<Call("sz_archive_open", 0, h)>>
        counted == <<Call("sz_archive_get_item_count", h, 0)>>
        close == <<Call("sz_archive_close", h, 0)>>
        l == ListFrom([issued |-> opened \o counted, vals |-> <<>>, exc |-> NoExc,
                       slot |-> c.slot], arc, fault, bad, h, 0, c.out)
    IN  IF Raised(o.exc) THEN FfiHelped(opened, o.exc, o.exc, 0, <<>>, NoEngineRun, o.slot)
        ELSE IF Raised(c.exc)
        THEN FfiHelped(opened \o counted \o close, c.exc, c.exc, h, <<>>, NoEngineRun, c.slot)
        ELSE FfiHelped(l.issued \o close, l.exc, l.exc, h, l.vals, NoEngineRun, l.slot)

\* format.upper() / level.upper(), on the strings callers pass.
Upper(s) ==
    CASE s = "7z" -> "7Z"
      [] s = "zip" -> "ZIP"
      [] s = "sevenzip" -> "SEVENZIP"
      [] s = "rar" -> "RAR"
      [] s = "normal" -> "NORMAL"
      [] s = "best" -> "BEST"
      [] s = "tar" -> "TAR"
      [] s = "Tar" -> "TAR"
      [] s = "gzip" -> "GZIP"
      [] s = "gz" -> "GZ"
      [] s = "bzip2" -> "BZIP2"
      [] s = "bz2" -> "BZ2"
      [] s = "xz" -> "XZ"
      [] s = "auto" -> "AUTO"
      [] OTHER -> s

Ffi_Format_SEVENZIP == 1
\* getattr(SzFormat, name): the member's value, -1 when SzFormat has no
\* member of that name.
SzFormatMember(name) ==
    CASE name = "AUTO" -> 0
      [] name = "SEVENZIP" -> Ffi_Format_SEVENZIP
      [] name = "ZIP" -> 2
      [] name = "TAR" -> 3
      [] name = "GZIP" -> 4
      [] name = "BZIP2" -> 5
      [] name = "XZ" -> Ffi_Format_XZ
      [] OTHER -> -1

\* getattr(SzCompressionLevel, name), likewise.
SzCompressionLevelMember(name) ==
    CASE name = "STORE" -> 0
      [] name = "FASTEST" -> 1
      [] name = "FAST" -> 2
      [] name = "NORMAL" -> 3
      [] name = "MAXIMUM" -> 4
      [] name = "ULTRA" -> 5
      [] OTHER -> -1

\* getattr without a default, of a name the enumeration does not have.
NoMember ==
    [kind |-> "AttributeError", code |-> 0, detail |-> "", text |-> "no such member",
     shown |-> -1]

\* SevenZip.is_format_supported(format): False at once when SzFormat has no
\* member named format.upper(), else what the engine says of the member.
SevenZip_is_format_supported(format, answer, slot) ==
    LET format_enum == SzFormatMember(Upper(format))
    IN  IF format_enum = -1
        THEN FfiHelped(<<>>, NoExc, NoExc, 0, <<FALSE>>, NoEngineRun, slot)
        ELSE FfiHelped(<<CallWith("sz_is_format_supported", 0, 0, <<format_enum>>, "")>>,
                       NoExc, NoExc, 0, <<answer # 0>>, NoEngineRun, slot)

\* The native calls of the try block of SevenZip.compress, in order: the
\* level, the password when one is given, one add (add_directory for a
\* directory, add_file otherwise, the path inside the archive left to the
\* engine), finalize.
CompressBody(source, level_enum, password, h) ==
    <<CallWith("sz_writer_set_compression_level", h, 0, <<level_enum>>, "")>>
    \o (IF password # "" THEN <<CallWith("sz_writer_set_password", h, 0, <<password>>, "")>>
        ELSE <<>>)
    \o <<CallWith(IF is_dir(source) THEN "sz_writer_add_directory" ELSE "sz_writer_add_file",
                  h, 0, source, "")>>
    \o <<Call("sz_writer_finalize", h, 0)>>

\* SevenZip.compress without the try/finally: the writer is destroyed only
\* when nothing failed.
SevenZip_compress_DestroysOnSuccess(source, format, level, password, fault, slot, next) ==
    LET format_enum == SzFormatMember(Upper(format))
        level_enum == SzCompressionLevelMember(Upper(level))
        c == FfiStep(1, fault, Ans(Ffi_OK, next), slot)
        h == IF c.res = Ffi_OK THEN c.out ELSE 0
        created == <<CallWith("sz_writer_create", 0, h, <<format_enum>>, "")>>
        body == CompressBody(source, level_enum, password, h)
        ran == IF fault.at \in 2 .. Len(body) + 1 THEN fault.at - 1 ELSE Len(body)
        last == FfiStep(ran + 1, fault, Ans(Ffi_OK, 0), c.slot)
        destroy == IF Raised(last.exc) THEN <<>> ELSE <<Call("sz_writer_destroy", h, 0)>>
    IN  IF format_enum = -1 \/ level_enum = -1
        THEN FfiHelped(<<>>, NoMember, NoMember, 0, <<>>, NoEngineRun, slot)
        ELSE IF Raised(c.exc) THEN FfiHelped(created, c.exc, c.exc, 0, <<>>, NoEngineRun, c.slot)
        ELSE FfiHelped(created \o SubSeq(body, 1, ran) \o destroy, last.exc, last.exc, h, <<>>,
                       NoEngineRun, last.slot)

\* SevenZip.compress(source_path, archive_path, format, level, password):
\* the two getattr lookups; create; then, in a try block whose finally
\* clause destroys the writer, the calls of the body up to the first that
\* fails (call number fault.at of the run, create being the first).
SevenZip_compress(source, format, level, password, fault, slot, next) ==
    LET format_enum == SzFormatMember(Upper(format))
        level_enum == SzCompressionLevelMember(Upper(level))
        c == FfiStep(1, fault, Ans(Ffi_OK, next), slot)
        h == IF c.res = Ffi_OK THEN c.out ELSE 0
        created == <<CallWith("sz_writer_create", 0, h, <<format_enum>>, "")>>
        body == CompressBody(source, level_enum, password, h)
        ran == IF fault.at \in 2 .. Len(body) + 1 THEN fault.at - 1 ELSE Len(body)
        last == FfiStep(ran + 1, fault, Ans(Ffi_OK, 0), c.slot)
        destroy == <<Call("sz_writer_destroy", h, 0)>>
    IN  IF format_enum = -1 \/ level_enum = -1
        THEN FfiHelped(<<>>, NoMember, NoMember, 0, <<>>, NoEngineRun, slot)
        ELSE IF Raised(c.exc) THEN FfiHelped(created, c.exc, c.exc, 0, <<>>, NoEngineRun, c.slot)
        ELSE FfiHelped(created \o SubSeq(body, 1, ran) \o destroy, last.exc, last.exc, h, <<>>,
                       NoEngineRun, last.slot)

(***************************************************************************)
(* The engine's side of a handle: its kind, whether a release call         *)
(* (sz_archive_close, sz_writer_cancel, sz_writer_destroy) has been made   *)
(* with it, and how many finalize calls, release calls and calls after     *)
(* the release it has seen (counted up to MaxCount).                       *)
(***************************************************************************)
Handles == 1 .. MaxHandles
NoHandle == [kind |-> "none", released |-> FALSE, finalizes |-> 0, releases |-> 0, late |-> 0]
ReleaseCalls == {"sz_archive_close", "sz_writer_cancel", "sz_writer_destroy"}
KindOf(fn) == IF fn = "sz_archive_open" THEN "archive" ELSE "writer"
Bump(n) == IF n < MaxCount THEN n + 1 ELSE n

\* The table after one call.
ApplyCall(nat, c) ==
    IF c.out \in Handles
    THEN [nat EXCEPT ![c.out] = [NoHandle EXCEPT !.kind = KindOf(c.fn)]]
    ELSE IF c.h \in Handles
    THEN [nat EXCEPT ![c.h] =
            [kind |-> @.kind,
             released |-> @.released \/ c.fn \in ReleaseCalls,
             finalizes |-> IF c.fn = "sz_writer_finalize" THEN Bump(@.finalizes) ELSE @.finalizes,
             releases |-> IF c.fn \in ReleaseCalls THEN Bump(@.releases) ELSE @.releases,
             late |-> IF @.released THEN Bump(@.late) ELSE @.late]]
    ELSE nat

\* The table after the calls of `issued`, in order.
RECURSIVE ApplyCalls(_, _)
ApplyCalls(nat, issued) ==
    IF issued = <<>> THEN nat
    ELSE ApplyCalls(ApplyCall(nat, Head(issued)), Tail(issued))

(***************************************************************************)
(* The caller.  Each action is one call of a wrapper method (or one entry  *)
(* to or exit from a `with` block) with the native side's answers as       *)
(* inputs.                                                                 *)
(***************************************************************************)
\* The wrappers, the engine and the slot before anything has been called.
InitWrappers ==
    /\ archive = NewArchive
    /\ writer = NewWriter
    /\ scope = 0
    /\ whist = NewHist
    /\ nextHandle = 1
    /\ native = [h \in Handles |-> NoHandle]
    /\ lastError = ""
    /\ outcome = [op |-> "init", pre |-> NewWriter, prehist |-> NewHist, block |-> 0,
                  blockExc |-> NoExc, exc |-> NoExc, issued |-> <<>>, res |-> -1, ret |-> 0,
                  inp |-> <<>>]

NoCheck ==
    [binding |-> "none", result |-> 0, operation |-> "", slot |-> "", isNull |-> FALSE,
     done |-> FALSE, exc |-> NoExc, calls |-> <<>>]

\* No helper has been called.
NoRun ==
    [op |-> "none", inp |-> <<>>, issued |-> <<>>, exc |-> NoExc, val |-> <<>>,
     eng |-> <<>>, written |-> <<>>, n |-> 0]

\* A call of a helper, the n-th of the behaviour.
Run(op, inp, issued, exc, val, eng, written) ==
    [op |-> op, inp |-> inp, issued |-> issued, exc |-> exc, val |-> val, eng |-> eng,
     written |-> written, n |-> fx.n + 1]

\* No thread but the caller's.
NoThreads == [of |-> <<>>, actor |-> 0, issued |-> <<>>, inp |-> <<>>]

Init == InitWrappers /\ check = NoCheck /\ fx = NoRun /\ threads = NoThreads

\* The handles the calls of `issued` allocated.
Allocated(issued) == {issued[i].out : i \in DOMAIN issued} \cap Handles

\* What every operation does to the engine's table, the allocator, the slot
\* and the record of the most recent operation (inp: the argument the
\* operation was called with, where a property speaks of it).
ObserveCallsWith(op, pre, blockExc, r, inp) ==
    /\ native' = ApplyCalls(native, r.issued)
    /\ nextHandle' = nextHandle + Cardinality(Allocated(r.issued))
    /\ lastError' = r.slot
    /\ outcome' = [op |-> op, pre |-> pre, prehist |-> whist, block |-> scope,
                   blockExc |-> blockExc, exc |-> r.exc, issued |-> r.issued,
                   res |-> r.res, ret |-> r.ret, inp |-> inp]
    /\ UNCHANGED <<check, threads>>

ObserveCalls(op, pre, blockExc, r) == ObserveCallsWith(op, pre, blockExc, r, <<>>)

\* The same for an operation of the wrapper the caller holds.
ObserveExit(op, pre, blockExc, r) ==
    /\ ObserveCalls(op, pre, blockExc, r)
    /\ UNCHANGED fx

Observe(op, pre, r) == ObserveExit(op, pre, NoExc, r)

\* The engine gives out at most MaxHandles handles.
CanAllocate(res) == res = SzResult_OK => nextHandle \in Handles

AsPre(a) == [handle |-> a.handle, finalized |-> FALSE]

\* The record of a one-byte file the lifecycle actions let the engine report.
AnInfo ==
    [index |-> 0, path |-> <<"a.txt">>, size |-> 1, crc |-> 0, has_crc |-> 0,
     is_directory |-> 0]

\* archive = Archive.open(path): the assignment happens only on return.
ArchiveOpen ==
    \E res \in LifecycleResults, d \in LifecycleDetails :
        LET r == Archive_open(res, d, lastError, nextHandle) IN
        /\ CanAllocate(res)
        /\ Observe("Archive.open", AsPre(archive), r)
        /\ archive' = IF Raised(r.exc) THEN archive ELSE r.w
        /\ UNCHANGED <<writer, scope, whist>>

ArchiveClose ==
    LET r == Archive_close(archive, lastError) IN
    /\ Observe("Archive.close", AsPre(archive), r)
    /\ archive' = r.w
    /\ UNCHANGED <<writer, scope, whist>>

ArchiveItemCount ==
    \E res \in LifecycleResults, d \in LifecycleDetails :
        LET r == Archive_item_count(archive, res, d, lastError, 1) IN
        /\ Observe("Archive.item_count", AsPre(archive), r)
        /\ archive' = r.w
        /\ UNCHANGED <<writer, scope, whist>>

ArchiveGetItemInfo ==
    \E res \in LifecycleResults, d \in LifecycleDetails :
        LET r == Archive_get_item_info(archive, 0, res, d, lastError, AnInfo) IN
        /\ Observe("Archive.get_item_info", AsPre(archive), r)
        /\ archive' = r.w
        /\ UNCHANGED <<writer, scope, whist>>

ArchiveExtractToMemory ==
    \E res \in LifecycleResults, d \in LifecycleDetails :
        LET r == Archive_extract_to_memory(archive, 0, res, d, lastError, "x") IN
        /\ Observe("Archive.extract_to_memory", AsPre(archive), r)
        /\ archive' = r.w
        /\ UNCHANGED <<writer, scope, whist>>

\* writer = Writer.create(path), or `with Writer.create(path) as writer:`
\* (enter = TRUE): the block is entered only when create returned.
WriterCreate ==
    \E res \in LifecycleResults, d \in LifecycleDetails, enter \in BOOLEAN :
        LET r == Writer_create(res, d, lastError, nextHandle) IN
        /\ scope = 0
        /\ CanAllocate(res)
        /\ Observe("Writer.create", writer, r)
        /\ writer' = IF Raised(r.exc) THEN writer ELSE r.w
        /\ whist' = IF Raised(r.exc) THEN whist ELSE NewHist
        /\ scope' = IF ~Raised(r.exc) /\ enter THEN r.ret ELSE scope
        /\ UNCHANGED archive

\* One of the five mutating methods.
WriterMutate(op, r) ==
    /\ Observe(op, writer, r)
    /\ writer' = r.w
    /\ UNCHANGED <<archive, scope, whist>>

WriterAddFile ==
    \E res \in LifecycleResults, d \in LifecycleDetails :
        WriterMutate("Writer.add_file",
                     Writer_add_file(writer, <<"d1", "a.txt">>, "", res, d, lastError))

WriterAddDirectory ==
    \E res \in LifecycleResults, d \in LifecycleDetails :
        WriterMutate("Writer.add_directory",
                     Writer_add_directory(writer, <<"d3">>, TRUE, res, d, lastError))

WriterAddMemory ==
    \E res \in LifecycleResults, d \in LifecycleDetails, archive_path \in {"", "a.txt"} :
        WriterMutate("Writer.add_memory",
                     Writer_add_memory(writer, "x", archive_path,
                                       EngineAddMemory(archive_path, res), d, lastError))

WriterSetPassword ==
    \E res \in LifecycleResults, d \in LifecycleDetails :
        WriterMutate("Writer.set_password",
                     Writer_set_password(writer, "pw", res, d, lastError))

\* The levels a caller of set_compression_level passes: names of the map in
\* any case, names that are not of the map, members of SzCompressionLevel.
LevelInputs ==
    {Str(s) : s \in {"none", "fast", "FAST", "normal", "maximum", "ultra", "Ultra", "best", ""}}
    \cup {Member(v) : v \in SzCompressionLevel_NONE .. SzCompressionLevel_ULTRA}

WriterSetCompressionLevel ==
    \E res \in LifecycleResults, d \in LifecycleDetails, level \in LevelInputs :
        LET r == Writer_set_compression_level(writer, level, res, d, lastError) IN
        /\ ObserveCallsWith("Writer.set_compression_level", writer, NoExc, r, level)
        /\ writer' = r.w
        /\ UNCHANGED <<archive, scope, whist, fx>>

\* Whether the calls of `issued` hold a call of fn.
Issues(issued, fn) == \E i \in DOMAIN issued : issued[i].fn = fn

WriterFinalize ==
    \E res \in LifecycleResults, d \in LifecycleDetails :
        LET r == Writer_finalize(writer, res, d, lastError) IN
        /\ Observe("Writer.finalize", writer, r)
        /\ writer' = r.w
        /\ whist' = [whist EXCEPT !.finOk =
                        @ \/ (Issues(r.issued, "sz_writer_finalize") /\ ~Raised(r.exc))]
        /\ UNCHANGED <<archive, scope>>

WriterCancel ==
    LET r == Writer_cancel(writer, lastError) IN
    /\ Observe("Writer.cancel", writer, r)
    /\ writer' = r.w
    /\ whist' = [whist EXCEPT !.cancelCalled = TRUE]
    /\ UNCHANGED <<archive, scope>>

\* The `with` block is left normally: __exit__(None, None, None).
WithExitNormal ==
    \E res \in LifecycleResults, d \in LifecycleDetails :
        LET r == Writer_exit(writer, NoExc, res, d, lastError) IN
        /\ scope # 0
        /\ Observe("Writer.__exit__(None)", writer, r)
        /\ writer' = r.w
        /\ whist' = [finOk |-> whist.finOk
                                 \/ (Issues(r.issued, "sz_writer_finalize") /\ ~Raised(r.exc)),
                     cancelCalled |-> whist.cancelCalled \/ ~Raised(r.exc)]
        /\ scope' = 0
        /\ UNCHANGED archive

\* The exceptions that can leave the block body: the one the most recent
\* operation raised, or one of the body's own.
BlockExceptions == {UserError} \cup (IF Raised(outcome.exc) THEN {outcome.exc} ELSE {})

\* The `with` block is left by an exception: __exit__(type, value, tb).
WithExitRaise ==
    \E e \in BlockExceptions :
        LET r == Writer_exit(writer, e, SzResult_OK, "", lastError) IN
        /\ scope # 0
        /\ ObserveExit("Writer.__exit__(exc)", writer, e, r)
        /\ writer' = r.w
        /\ whist' = [whist EXCEPT !.cancelCalled = TRUE]
        /\ scope' = 0
        /\ UNCHANGED archive

\* The inputs of create_archive: up to MaxFiles paths of the file system.
FileLists == UNION {[1 .. n -> Sources] : n \in 0 .. MaxFiles}
\* The levels a caller passes: a name of the map and one that is not.
Levels == {"normal", "best"}
\* The default of create_archive's level parameter.
DefaultLevel == "normal"

\* create_archive(...) with one of the file lists of `lists`, the level
\* argument given or left to its default: the writer is local to the call.
CreateArchiveOf(lists) ==
    \E files \in lists, password \in {"", "pw"}, levelGiven \in BOOLEAN,
       d \in LifecycleDetails, res \in {SzResult_WRITE_ERROR} :
      \E level \in IF levelGiven THEN Levels ELSE {DefaultLevel} :
        \E failAt \in 0 .. Len(Script(files, password, level)) + 2 :
            LET r == create_archive(files, password, level, failAt, res, d, lastError,
                                    nextHandle) IN
            /\ scope = 0
            /\ fx.n < MaxRuns
            /\ CanAllocate(Answer(1, failAt, res))
            /\ ObserveCalls("create_archive", NewWriter, NoExc, r)
            /\ fx' = Run("create_archive",
                         [files |-> files, password |-> password, level |-> level,
                          failAt |-> failAt, levelGiven |-> levelGiven],
                         r.issued, r.exc, <<>>, <<>>, <<>>)
            /\ UNCHANGED <<archive, writer, scope, whist>>

CreateArchive == CreateArchiveOf(FileLists)

Next ==
    \/ ArchiveOpen
    \/ ArchiveClose
    \/ ArchiveItemCount
    \/ ArchiveGetItemInfo
    \/ ArchiveExtractToMemory
    \/ WriterCreate
    \/ WriterAddFile
    \/ WriterAddDirectory
    \/ WriterAddMemory
    \/ WriterSetPassword
    \/ WriterSetCompressionLevel
    \/ WriterFinalize
    \/ WriterCancel
    \/ WithExitNormal
    \/ WithExitRaise

Spec == Init /\ [][Next]_vars

(***************************************************************************)
(* Two threads, each calling one native function on a handle of its own    *)
(* and handing the result to _check_result.  ctypes releases the           *)
(* interpreter lock around a native call and the interpreter may switch    *)
(* threads between the call and _check_result: the call and the check are  *)
(* two steps.  The last-error slot is one for the process.                 *)
(***************************************************************************)
Threads == 1 .. 2
\* The detail a failing call of thread t leaves in the slot.
ThreadDetail(t) == IF t = 1 THEN "d1" ELSE "d2"
\* A thread about to make its call: the binding it uses, the result the
\* engine will give it, the detail the engine writes for it.
Thread(binding, res, d) ==
    [binding |-> binding, res |-> res, d |-> d, pc |-> "call", exc |-> NoExc]

InitThreads ==
    /\ InitWrappers
    /\ check = NoCheck
    /\ fx = NoRun
    /\ \E b1, b2 \in {"sevenzip", "sevenzip_ffi"}, r1, r2 \in {SzResult_OK, SzResult_FAIL} :
           threads = [NoThreads EXCEPT !.of = <<Thread(b1, r1, ThreadDetail(1)),
                                                  Thread(b2, r2, ThreadDetail(2))>>]

\* result = _lib.sz_...(handle, ...): the engine writes the slot when the
\* call fails.
ThreadCall ==
    \E t \in Threads :
        /\ threads.of[t].pc = "call"
        /\ lastError' = SlotAfter(lastError, threads.of[t].res, threads.of[t].d)
        /\ threads' = [of |-> [threads.of EXCEPT ![t].pc = "check"], actor |-> t,
                       issued |-> <<Call("sz_archive_get_item_count", t, 0)>>, inp |-> <<>>]
        /\ UNCHANGED <<archive, writer, scope, whist, nextHandle, native, outcome, check, fx>>

\* _check_result(result): the slot is read as it is by now.
ThreadCheck ==
    \E t \in Threads :
        /\ threads.of[t].pc = "check"
        /\ threads' =
               [of |-> [threads.of EXCEPT
                            ![t].pc = "done",
                            ![t].exc =
                                IF threads.of[t].binding = "sevenzip"
                                THEN CheckResult(threads.of[t].res, "item count", lastError)
                                ELSE FfiCheckResult(threads.of[t].res, lastError, FALSE)],
                actor |-> t, issued |-> <<>>, inp |-> <<>>]
        /\ UNCHANGED <<archive, writer, scope, whist, nextHandle, native, lastError, outcome,
                       check, fx>>

NextThreads == ThreadCall \/ ThreadCheck

SpecThreads == InitThreads /\ [][NextThreads]_vars

(***************************************************************************)
(* Two wrapper instances, two Archives or an Archive and a Writer, used in *)
(* any interleaving of their methods.                                      *)
(***************************************************************************)
\* A wrapper instance not yet made by open / create.
Instance(kind) ==
    [kind |-> kind, w |-> IF kind = "Archive" THEN NewArchive ELSE NewWriter,
     made |-> FALSE]

InitPair ==
    /\ InitWrappers
    /\ check = NoCheck
    /\ fx = NoRun
    /\ \E k1, k2 \in {"Archive", "Writer"} :
           /\ "Archive" \in {k1, k2}
           /\ threads = [NoThreads EXCEPT !.of = <<Instance(k1), Instance(k2)>>]

\* What a method of instance t, called with the arguments inp, does: to the
\* instance, and to what the process shares (the engine's table, the
\* allocator, the slot).
Acts(t, r, made, inp) ==
    /\ threads' = [of |-> [threads.of EXCEPT ![t].w = IF made THEN r.w ELSE @,
                                             ![t].made = made],
                   actor |-> t, issued |-> r.issued, inp |-> inp]
    /\ native' = ApplyCalls(native, r.issued)
    /\ nextHandle' = nextHandle + Cardinality(Allocated(r.issued))
    /\ lastError' = r.slot
    /\ UNCHANGED <<archive, writer, scope, whist, outcome, check, fx>>

\* Archive.open(path) / Writer.create(path): the instance exists once the
\* call returned.
PairOpen ==
    \E t \in Threads, res \in LifecycleResults, d \in LifecycleDetails :
        LET r == IF threads.of[t].kind = "Archive"
                 THEN Archive_open(res, d, lastError, nextHandle)
                 ELSE Writer_create(res, d, lastError, nextHandle) IN
        /\ ~threads.of[t].made
        /\ CanAllocate(res)
        /\ Acts(t, r, ~Raised(r.exc), <<>>)

\* archive.item_count / writer.add_file(file_path, archive_path), "" being
\* an archive_path left out.
PairUse ==
    \E t \in Threads, res \in LifecycleResults, d \in LifecycleDetails,
       file_path \in SourceFiles, archive_path \in {"", "b.txt"} :
        /\ threads.of[t].made
        /\ IF threads.of[t].kind = "Archive"
           THEN Acts(t, Archive_item_count(threads.of[t].w, res, d, lastError, 1), TRUE, <<>>)
           ELSE Acts(t, Writer_add_file(threads.of[t].w, file_path, archive_path, res, d,
                                        lastError),
                     TRUE, [file_path |-> file_path, archive_path |-> archive_path])

\* writer.finalize().
PairFinalize ==
    \E t \in Threads, res \in LifecycleResults, d \in LifecycleDetails :
        /\ threads.of[t].made
        /\ threads.of[t].kind = "Writer"
        /\ Acts(t, Writer_finalize(threads.of[t].w, res, d, lastError), TRUE, <<>>)

\* archive.close() / writer.cancel().
PairRelease ==
    \E t \in Threads :
        /\ threads.of[t].made
        /\ Acts(t, IF threads.of[t].kind = "Archive"
                   THEN Archive_close(threads.of[t].w, lastError)
                   ELSE Writer_cancel(threads.of[t].w, lastError),
                TRUE, <<>>)

NextPair ==
    \/ PairOpen
    \/ PairUse
    \/ PairFinalize
    \/ PairRelease

SpecPair == InitPair /\ [][NextPair]_vars

(***************************************************************************)
(* The one-call helpers, each with a wrapper of its own.                   *)
(***************************************************************************)

(***************************************************************************)
(* _check_result alone, over every result code the engine may return,      *)
(* every content of the slot and both bindings.                            *)
(***************************************************************************)
Operations == {"open archive", "create writer", "finalize"}

InitCheck ==
    /\ InitWrappers
    /\ fx = NoRun
    /\ threads = NoThreads
    /\ check \in [binding : {"sevenzip", "sevenzip_ffi"}, result : NativeResults,
                   operation : Operations, slot : Details, isNull : BOOLEAN,
                   done : {FALSE}, exc : {NoExc}, calls : {<<>>}]

\* sevenzip.py: _check_result(result, operation).
CheckPy ==
    /\ check.binding = "sevenzip" /\ ~check.done
    /\ check' = [check EXCEPT !.done = TRUE,
                    !.exc = CheckResult(check.result, check.operation, check.slot),
                    !.calls = CheckResultCalls(check.result)]
    /\ UNCHANGED <<archive, writer, scope, whist, nextHandle, native, lastError, outcome, fx,
                   threads>>

\* sevenzip_ffi.py: _check_result(result).
CheckFfi ==
    /\ check.binding = "sevenzip_ffi" /\ ~check.done
    /\ check' = [check EXCEPT !.done = TRUE,
                    !.exc = FfiCheckResult(check.result, check.slot, check.isNull),
                    !.calls = FfiCheckResultCalls(check.result)]
    /\ UNCHANGED <<archive, writer, scope, whist, nextHandle, native, lastError, outcome, fx,
                   threads>>

NextCheck == CheckPy \/ CheckFfi

SpecCheck == InitCheck /\ [][NextCheck]_vars

(***************************************************************************)
(* The helpers that open a reader, one call each: the arguments and the    *)
(* engine's side (the archive, the fault) are drawn when the behaviour     *)
(* starts, the action is the call.                                         *)
(***************************************************************************)
\* The directory the helpers extract to.
OutputDir == <<"/", "out">>

\* The indices a body asks for: those of the items, the first past them,
\* and two that do not fit a c_size_t.
Indices == (0 .. MaxItems) \cup {SizeModulus, SizeModulus + 1}

\* The bodies of a `with Archive.open(...)` block: up to two statements.
Stmts ==
    {Stmt("item_count", 0), Stmt("list", 0), Stmt("close", 0), Stmt("raise", 0)}
    \cup {Stmt("get_item_info", i) : i \in Indices}
    \cup {Stmt("extract_to_memory", i) : i \in {0, MaxItems}}
Bodies == {<<>>} \cup {<<s>> : s \in Stmts} \cup {<<s, t>> : s \in Stmts, t \in Stmts}

\* The archives of a writer that keeps its paths relative and inside.
PlainArchives == {arc \in Archives : \A i \in DOMAIN arc.items :
                                        arc.items[i].path[1] \notin {"..", "/"}}

\* The faults of a run: none, or one of the first calls fails.
Faults(last) == {Fault(at, SzResult_WRITE_ERROR, "d1") : at \in 0 .. last}

\* The callbacks a caller passes: none, or one that answers each of its
\* invocations with True or False.
Callbacks == {NoCallback} \cup {Callback(TRUE, rets) : rets \in [1 .. MaxItems -> BOOLEAN]}

BlockInputs ==
    {[helper |-> "with Archive.open", arc |-> arc, password |-> arc.password, body |-> body,
      catching |-> catching, fault |-> fault] :
        arc \in PlainArchives, body \in Bodies, catching \in BOOLEAN, fault \in Faults(3)}

ExtractArchiveInputs ==
    [helper : {"extract_archive"}, arc : Archives, password : {"", "pw"},
     fault : Faults(2 + 2 * MaxItems), wfail : 0 .. MaxItems]

FfiExtractInputs ==
    [helper : {"SevenZip.extract"}, arc : Archives, password : {"", "pw", "bad"},
     cb : Callbacks, fault : Faults(3)]

FfiInfoInputs ==
    [helper : {"SevenZip.get_archive_info"}, arc : Archives, fmt : {1, Ffi_Format_XZ + 1},
     packed : 0 .. MaxItems, fault : Faults(2)]

FfiListInputs ==
    [helper : {"SevenZip.list_items"}, arc : Archives, fault : Faults(2 + MaxItems),
     bad : 0 .. MaxItems]

FfiCompressInputs ==
    [helper : {"SevenZip.compress"}, source : Sources, format : {"7z", "zip", "sevenzip"},
     level : Levels, password : {"", "pw"}, fault : Faults(5)]

FfiSupportedInputs ==
    [helper : {"SevenZip.is_format_supported"}, format : {"7z", "zip", "sevenzip", "rar"},
     answer : {0, 1}]

Pending(inp) == [NoRun EXCEPT !.op = "pending", !.inp = inp]

InitReader ==
    /\ InitWrappers
    /\ check = NoCheck
    /\ threads = NoThreads
    /\ fx \in {Pending(inp) : inp \in BlockInputs \cup ExtractArchiveInputs
                                     \cup FfiExtractInputs \cup FfiInfoInputs
                                     \cup FfiListInputs \cup FfiCompressInputs
                                     \cup FfiSupportedInputs}

\* The helper drawn has not been called yet.
IsPending(name) == fx.op = "pending" /\ fx.inp.helper = name

\* The call of the helper drawn, with what it did.
Helper(name, h) ==
    /\ fx' = Run(name, fx.inp, h.issued, h.exc, h.vals, h, h.written)
    /\ native' = ApplyCalls(native, h.issued)
    /\ nextHandle' = nextHandle + Cardinality(Allocated(h.issued))
    /\ lastError' = h.slot
    /\ UNCHANGED <<archive, writer, scope, whist, outcome, check, threads>>

WithArchiveOpen ==
    /\ IsPending("with Archive.open")
    /\ Helper("with Archive.open",
               ArchiveBlock(fx.inp.arc, fx.inp.password, fx.inp.body, fx.inp.catching,
                            fx.inp.fault, lastError, nextHandle))

ExtractArchive ==
    /\ IsPending("extract_archive")
    /\ Helper("extract_archive",
               extract_archive(fx.inp.arc, OutputDir, fx.inp.password, fx.inp.fault, fx.inp.wfail,
                               lastError, nextHandle))

FfiExtract ==
    /\ IsPending("SevenZip.extract")
    /\ Helper("SevenZip.extract",
               SevenZip_extract(fx.inp.arc, fx.inp.password, fx.inp.cb, fx.inp.fault, lastError,
                                nextHandle))

FfiGetArchiveInfo ==
    /\ IsPending("SevenZip.get_archive_info")
    /\ Helper("SevenZip.get_archive_info",
               SevenZip_get_archive_info(fx.inp.arc, fx.inp.fmt, fx.inp.packed, fx.inp.fault,
                                         lastError,
                                         nextHandle))

FfiListItems ==
    /\ IsPending("SevenZip.list_items")
    /\ Helper("SevenZip.list_items",
               SevenZip_list_items(fx.inp.arc, fx.inp.fault, fx.inp.bad, lastError, nextHandle))

FfiCompress ==
    /\ IsPending("SevenZip.compress")
    /\ Helper("SevenZip.compress",
              SevenZip_compress(fx.inp.source, fx.inp.format, fx.inp.level, fx.inp.password,
                                fx.inp.fault, lastError, nextHandle))

FfiIsFormatSupported ==
    /\ IsPending("SevenZip.is_format_supported")
    /\ Helper("SevenZip.is_format_supported",
              SevenZip_is_format_supported(fx.inp.format, fx.inp.answer, lastError))

NextReader ==
    \/ WithArchiveOpen
    \/ ExtractArchive
    \/ FfiExtract
    \/ FfiGetArchiveInfo
    \/ FfiListItems
    \/ FfiCompress
    \/ FfiIsFormatSupported

SpecReader == InitReader /\ [][NextReader]_vars

\* extract_archive(archive, output_dir, password) of the archive a
\* create_archive that did not fail has just written, with the password it
\* was created with.  The archive holds fewer items than a c_size_t counts.
ExtractCreated ==
    /\ fx.op = "create_archive"
    /\ ~Raised(fx.exc)
    /\ Len(Stored(fx.issued).items) < SizeModulus
    /\ CanAllocate(SzResult_OK)
    /\ Helper("round trip",
              extract_archive(Stored(fx.issued), OutputDir, fx.inp.password,
                              Fault(0, SzResult_OK, ""), 0, lastError, nextHandle))

NextFacade ==
    \/ CreateArchive
    \/ ExtractCreated

SpecFacade == Init /\ [][NextFacade]_vars


(***************************************************************************)
(* Properties.                                                             *)
(***************************************************************************)
Mutators ==
    {"Writer.add_file", "Writer.add_directory", "Writer.add_memory", "Writer.set_password",
     "Writer.set_compression_level"}
ArchiveReads == {"Archive.item_count", "Archive.get_item_info", "Archive.extract_to_memory"}
WriterExits == {"Writer.__exit__(None)", "Writer.__exit__(exc)"}

\* The only INVALID_STATE member the repository defines is sevenzip_ffi.py's;
\* SzResult of sevenzip.py has none.
IsInvalidState(e) == e.kind = "SevenZipError" /\ e.code = Ffi_INVALID_STATE

CancelOf(h) == Call("sz_writer_cancel", h, 0)
FinalizeOf(h) == Call("sz_writer_finalize", h, 0)

\* C1: once finalize() has succeeded or cancel() has been called on a
\* writer, each later add_file, add_directory, add_memory, set_password and
\* set_compression_level raises a SevenZipError and issues no native call.
C1_MutatorsRejectedAfterTerminal ==
    (outcome.op \in Mutators /\ (outcome.prehist.finOk \/ outcome.prehist.cancelCalled))
        => /\ outcome.exc.kind = "SevenZipError"
           /\ outcome.issued = <<>>

\* A mutator was called on a writer that had finalized successfully and still
\* held its handle, and it raised.
C1_Witness ==
    /\ outcome.op = "Writer.add_memory"
    /\ outcome.prehist.finOk /\ ~outcome.prehist.cancelCalled
    /\ outcome.pre.handle # 0
    /\ Raised(outcome.exc)

\* C2: every handle the engine gave out sees at most one release call
\* (sz_archive_close, sz_writer_cancel) and no call after it.
C2_ReleaseAtMostOnce ==
    \A h \in Handles : native[h].releases <= 1 /\ native[h].late = 0

\* A reader handle and a writer handle have both been released, and close()
\* has then been called again on the closed Archive.
C2_Witness ==
    /\ \E h \in Handles : native[h].kind = "archive" /\ native[h].released
    /\ \E h \in Handles : native[h].kind = "writer" /\ native[h].released
    /\ outcome.op = "Archive.close" /\ outcome.pre.handle = 0

\* C3: when a scoped writer's scope ends (the `with` block is left, or
\* create_archive returns or raises), the handle it held has been released
\* with sz_writer_cancel, whichever step failed.
C3_ScopedWriterReleased ==
    /\ (outcome.op \in WriterExits /\ outcome.pre.handle # 0)
           => native[outcome.pre.handle].released
    /\ outcome.op = "create_archive"
           => \A h \in Allocated(outcome.issued) : native[h].released

C5_SecondFinalizeRejected ==
    (outcome.op = "Writer.finalize" /\ outcome.prehist.finOk /\ ~outcome.prehist.cancelCalled)
        => IsInvalidState(outcome.exc)

\* C6: a successful finalize() consumes the handle, and a later cancel()
\* issues no native call.
C6_FinalizeConsumesHandle ==
    /\ (outcome.op = "Writer.finalize" /\ Issues(outcome.issued, "sz_writer_finalize")
            /\ ~Raised(outcome.exc))
           => writer.finalized /\ writer.handle = 0
    /\ (outcome.op = "Writer.cancel" /\ outcome.prehist.finOk /\ ~outcome.prehist.cancelCalled)
           => ~Raised(outcome.exc) /\ outcome.issued = <<>>

\* C7: cancel() raises in no state of the writer, and a cancel() that
\* follows an earlier cancel() issues no native call.
C7_CancelNeverRaises ==
    outcome.op = "Writer.cancel"
        => /\ ~Raised(outcome.exc)
           /\ outcome.prehist.cancelCalled => outcome.issued = <<>>

\* cancel() was called on a writer whose handle an earlier cancel() had
\* released.
C7_Witness ==
    /\ outcome.op = "Writer.cancel"
    /\ outcome.prehist.cancelCalled
    /\ \E h \in Handles : native[h].kind = "writer" /\ native[h].released

\* C8: an operation on a released wrapper fails with the InvalidState code:
\* the three reads of a closed or never opened Archive, every add, set and
\* finalize call on a cancelled Writer, every add and set call on a
\* finalized one.
C8_ReleasedFailsInvalidState ==
    /\ (outcome.op \in ArchiveReads /\ outcome.pre.handle = 0)
           => IsInvalidState(outcome.exc)
    /\ (outcome.op \in Mutators \cup {"Writer.finalize"} /\ outcome.prehist.cancelCalled)
           => IsInvalidState(outcome.exc)
    /\ (outcome.op \in Mutators /\ outcome.prehist.finOk)
           => IsInvalidState(outcome.exc)

\* C9: for every non-success result code, _check_result raises a
\* SevenZipError that carries that code and the detail of the slot.
C9_EveryCodeTranslated ==
    (check.done /\ check.result # 0)
        => /\ check.exc.kind = "SevenZipError"
           /\ check.exc.code = check.result
           /\ check.exc.detail = check.slot

\* C10: when sz_archive_open or sz_writer_create fails, open/create raises,
\* returns no wrapper, leaves the wrapper the caller held as it was, and
\* issues nothing but the failed call: no handle was given out and none is
\* released.
C10_FailedOpenReturnsNothing ==
    (outcome.op \in {"Archive.open", "Writer.create"} /\ outcome.res # SzResult_OK)
        => /\ Raised(outcome.exc)
           /\ outcome.ret = 0
           /\ Len(outcome.issued) = 1
           /\ Allocated(outcome.issued) = {}
           /\ ~\E i \in DOMAIN outcome.issued : outcome.issued[i].fn \in ReleaseCalls
           /\ outcome.op = "Archive.open" => archive.handle = outcome.pre.handle
           /\ outcome.op = "Writer.create" => writer = outcome.pre

\* Archive.open failed with a SevenZipError while the caller still held an
\* Archive opened before.
C10_Witness ==
    /\ outcome.op = "Archive.open"
    /\ outcome.res = SzResult_WRITE_ERROR
    /\ outcome.exc.kind = "SevenZipError"
    /\ archive.handle # 0

\* The positions of the calls of fn in a sequence of calls.
CallsOf(issued, fn) == {i \in DOMAIN issued : issued[i].fn = fn}

\* C12: after a successful sz_archive_extract_to_memory, extract_to_memory
\* calls sz_memory_free exactly once, on the buffer the engine returned, and
\* only after the copy (string_at) of that buffer; it reads the buffer at no
\* point after the free; after a failed extract call it frees nothing.
C12_BufferFreedOnceAfterCopy ==
    (outcome.op = "Archive.extract_to_memory" /\ outcome.pre.handle # 0)
        => LET issued == outcome.issued
               frees == CallsOf(issued, "sz_memory_free")
               copies == CallsOf(issued, "string_at")
           IN  IF outcome.res = SzResult_OK
               THEN /\ Cardinality(frees) = 1
                    /\ copies # {}
                    /\ \A f \in frees : issued[f].h = issued[1].out
                    /\ \A f \in frees, c \in copies : c < f /\ issued[c].h = issued[f].h
               ELSE frees = {} /\ copies = {}

\* An item was extracted from an open archive: the engine returned a buffer
\* and the method freed it.
C12_Witness ==
    /\ outcome.op = "Archive.extract_to_memory"
    /\ outcome.res = SzResult_OK
    /\ outcome.issued[1].out = DataPtr
    /\ CallsOf(outcome.issued, "sz_memory_free") # {}

\* The calls create_archive is to hand to the engine for its inputs, on the
\* writer handle h, when no call fails.
ExpectedAdds(files, h) ==
    [i \in 1 .. Len(files) |->
        IF files[i] \in SourceDirs
        THEN CallWith("sz_writer_add_directory", h, 0, files[i], "1")
        ELSE CallWith("sz_writer_add_file", h, 0, files[i], files[i][Len(files[i])])]

ExpectedCalls(files, password, level, h) ==
    <<CallWith("sz_writer_set_compression_level", h, 0,
               <<IF level \in {"normal", "best"} THEN SzCompressionLevel_NORMAL
                 ELSE LevelOf(level)>>, "")>>
    \o (IF password # "" THEN <<CallWith("sz_writer_set_password", h, 0, <<password>>, "")>>
        ELSE <<>>)
    \o ExpectedAdds(files, h)
    \o <<Call("sz_writer_finalize", h, 0)>>

\* The calls of a run on its writer, but for the create and cancel calls.
IsBodyCall(c) == c.fn \notin {"sz_writer_create", "sz_writer_cancel"}
BodyCalls(issued) == SelectSeq(issued, IsBodyCall)

\* C19: the calls create_archive issues on its writer are, in order, the
\* level, the password when one is given, one add per input in list order
\* (add_directory with recursive=1 for a directory, add_file with the base
\* name otherwise) and finalize: all of them when nothing fails, and up to
\* the failing call when one fails; nothing follows finalize but the cancel.
C19_CallsInCallerOrder ==
    (fx.op = "create_archive" /\ Len(fx.issued) > 1)
        => LET h == fx.issued[1].out
               body == BodyCalls(fx.issued)
               expected == ExpectedCalls(fx.inp.files, fx.inp.password, fx.inp.level, h)
           IN  /\ Len(body) <= Len(expected)
               /\ body = SubSeq(expected, 1, Len(body))
               /\ ~Raised(fx.exc) => body = expected
               /\ \A i \in DOMAIN fx.issued :
                      fx.issued[i].fn = "sz_writer_finalize"
                          => \A j \in (i + 1) .. Len(fx.issued) :
                                 fx.issued[j].fn = "sz_writer_cancel"

\* create_archive ran to its end with a password and two inputs, a file and
\* a directory.
C19_Witness ==
    /\ fx.op = "create_archive"
    /\ ~Raised(fx.exc)
    /\ fx.inp.password = "pw"
    /\ fx.inp.files = <<<<"d2", "a.txt">>, <<"d3">>>>
    /\ Len(BodyCalls(fx.issued)) = 5


ReaderHelpers ==
    {"with Archive.open", "extract_archive", "SevenZip.extract", "SevenZip.get_archive_info",
     "SevenZip.list_items"}

\* C11: a helper that opened a reader has, when it returns or raises, called
\* sz_archive_close exactly once on the handle it opened, with no call on
\* that handle after it, whichever step failed; and the exception that
\* leaves the helper is the one that left its body.
C11_ReaderClosedOnce ==
    (fx.op \in ReaderHelpers /\ fx.eng.handle # 0)
        => LET closes == {i \in CallsOf(fx.issued, "sz_archive_close") :
                              fx.issued[i].h = fx.eng.handle}
           IN  /\ Cardinality(closes) = 1
               /\ \A c \in closes : \A i \in (c + 1) .. Len(fx.issued) :
                      fx.issued[i].h # fx.eng.handle
               /\ native[fx.eng.handle].releases = 1
               /\ fx.exc = fx.eng.bodyExc

\* extract_archive failed after its second call on the handle (in a lookup
\* or an extraction, or in a write) and the handle it opened was closed.
C11_Witness ==
    /\ fx.op = "extract_archive"
    /\ Raised(fx.exc)
    /\ fx.eng.handle # 0
    /\ Len(fx.issued) > 3
    /\ native[fx.eng.handle].released

ExtractionCalls == {"sz_archive_extract_to_memory", "sz_archive_extract_all"}

\* C13: when a password is given to Archive.open, extract_archive or
\* SevenZip.extract, the engine has been handed that password
\* (sz_archive_set_password) before the first extraction call on the
\* handle; and extracting a protected archive with its password succeeds
\* when nothing else fails.
C13_PasswordDelivered ==
    (fx.op \in {"with Archive.open", "extract_archive", "SevenZip.extract"}
        /\ fx.inp.password # "")
        => /\ \A i \in DOMAIN fx.issued :
                  fx.issued[i].fn \in ExtractionCalls
                      => \E j \in 1 .. (i - 1) :
                             /\ fx.issued[j].fn = "sz_archive_set_password"
                             /\ fx.issued[j].arg = <<fx.inp.password>>
           /\ (fx.op = "extract_archive" /\ fx.inp.password = fx.inp.arc.password
                  /\ fx.inp.fault.at = 0 /\ fx.inp.wfail = 0)
                  => ~Raised(fx.exc)

\* The statements of a block's body that ran on an open archive in a run
\* without a fault.
RanOpen(m) ==
    {n \in DOMAIN fx.val : fx.val[n].m = m /\ fx.val[n].pre # 0 /\ fx.inp.fault.at = 0}

\* C16: on an open archive of n items, get_item_info(i) raises a
\* SevenZipError with the IndexOutOfRange code for every i >= n, returns the
\* item for i = n - 1 when n > 0, and leaves the archive open: a statement
\* that follows the failed lookup finds the handle in place.
C16_IndexBounds ==
    fx.op = "with Archive.open"
        => \A s \in RanOpen("get_item_info") :
               LET n == Len(fx.inp.arc.items)
                   rec == fx.val[s]
               IN  /\ rec.i >= n
                          => /\ rec.exc.kind = "SevenZipError"
                             /\ rec.exc.code = SzResult_INDEX_OUT_OF_RANGE
                             /\ rec.post = rec.pre
                   /\ (n > 0 /\ rec.i = n - 1)
                          => ~Raised(rec.exc) /\ rec.val[1].index = rec.i

\* C17: list(archive) on an open archive gives exactly item_count items, the
\* i-th being the record of index i, in ascending order from 0; it leaves
\* the handle in place; and two enumerations in one block give the same
\* sequence.
C17_IterationInOrder ==
    fx.op = "with Archive.open"
        => /\ \A s \in RanOpen("list") :
                  LET items == fx.inp.arc.items
                      rec == fx.val[s]
                  IN  /\ ~Raised(rec.exc)
                      /\ Len(rec.val) = Len(items)
                      /\ \A i \in DOMAIN rec.val :
                             /\ rec.val[i].index = i - 1
                             /\ rec.val[i].path = items[i].path
                             /\ rec.val[i].is_directory = items[i].is_dir
                      /\ rec.post = rec.pre
           /\ \A s \in RanOpen("list"), t \in RanOpen("list") : fx.val[s].val = fx.val[t].val

\* A block enumerated an archive of two items twice.
C17_Witness ==
    /\ fx.op = "with Archive.open"
    /\ RanOpen("list") = {1, 2}
    /\ Len(fx.val[2].val) = 2
    /\ fx.val[1].val[2].index = 1

\* C20: every file extract_archive writes lies under output_dir, whatever
\* the paths of the items.
C20_WritesUnderOutputDir ==
    fx.op = "extract_archive"
        => \A w \in DOMAIN fx.written : IsUnder(fx.written[w].path, OutputDir)


\* The positions of `issued` at which fn was called.
PositionsOf(issued, fn) == {k \in 1 .. Len(issued) : issued[k].fn = fn}

\* The files among the items of an archive.
FilesOf(arc) == {i \in 1 .. Len(arc.items) : ~arc.items[i].is_dir}

\* C14: when the j-th invocation of the progress callback passed to
\* SevenZip.extract returns False, the trampoline answers the engine with 0,
\* the engine starts no further item and notifies no more, extract raises
\* SevenZipError with the cancellation code instead of returning, and the
\* handle is closed, once, as the last call.
C14_CancelStopsExtraction ==
    (fx.op = "SevenZip.extract" /\ fx.inp.cb.given) =>
        \A j \in 1 .. Len(fx.eng.run.seen) :
            ~fx.inp.cb.rets[j] =>
                /\ fx.eng.run.rets[j] = 0
                /\ Len(fx.eng.run.seen) = j
                /\ Len(fx.eng.run.started) = j
                /\ fx.exc.kind = "SevenZipError"
                /\ fx.exc.code = Ffi_ABORTED
                /\ PositionsOf(fx.issued, "sz_archive_close") = {Len(fx.issued)}
                /\ native[fx.eng.handle].released
                /\ native[fx.eng.handle].releases = 1

\* The callback cancels at the first file of an archive that holds two.
C14_Witness ==
    /\ fx.op = "SevenZip.extract"
    /\ fx.inp.cb.given
    /\ Cardinality(FilesOf(fx.inp.arc)) = 2
    /\ Len(fx.eng.run.seen) = 1
    /\ ~fx.inp.cb.rets[1]
    /\ fx.exc.code = Ffi_ABORTED

\* C15: during SevenZip.extract the callback is invoked once for each
\* notification of the engine, in the engine's order and with the engine's
\* (completed, total), so the completed values it sees never decrease; every
\* invocation happens while sz_archive_extract_all runs, none once the
\* handle is closed and extract has returned; without a callback nobody is
\* invoked.
C15_CallbackMirrorsEngine ==
    fx.op = "SevenZip.extract" =>
        /\ fx.eng.run.seen = fx.eng.run.notified
        /\ \A j, k \in 1 .. Len(fx.eng.run.seen) :
               j <= k => /\ fx.eng.run.seen[j][1] <= fx.eng.run.seen[k][1]
                         /\ fx.eng.run.seen[j][2] = fx.eng.run.seen[k][2]
        /\ Cardinality(PositionsOf(fx.issued, "progress_callback")) = Len(fx.eng.run.notified)
        /\ \A k \in PositionsOf(fx.issued, "progress_callback") :
               /\ \E a \in PositionsOf(fx.issued, "sz_archive_extract_all") : a < k
               /\ \A c \in PositionsOf(fx.issued, "sz_archive_close") : k < c
        /\ ~fx.inp.cb.given => fx.eng.run.seen = <<>>

\* The callback lets both files of an archive through and sees (1, 2), then
\* (2, 2).
C15_Witness ==
    /\ fx.op = "SevenZip.extract"
    /\ fx.inp.cb.given
    /\ ~Raised(fx.exc)
    /\ fx.eng.run.seen = <<(<<1, 2>>), (<<2, 2>>)>>


\* The files create_archive was given, each with the path it has inside the
\* archive (relative to the input's parent directory) and its bytes.
Originals(files) ==
    UNION {IF is_dir(files[i])
           THEN {[rel |-> <<PathName(files[i])>> \o Children(files[i])[k],
                  data |-> FileData(files[i] \o Children(files[i])[k])] :
                     k \in DOMAIN Children(files[i])}
           ELSE {[rel |-> <<PathName(files[i])>>, data |-> FileData(files[i])]} :
           i \in DOMAIN files}

\* The bytes the file at path p holds after the writes of `written` ("": no
\* such file).
ContentAt(written, p) ==
    LET ks == {k \in DOMAIN written : written[k].path = p}
    IN  IF ks = {} THEN ""
        ELSE written[CHOOSE k \in ks : \A j \in ks : j <= k].data

\* C18: after create_archive(files) and extract_archive of its archive into
\* output_dir, the files below output_dir are the originals: each original
\* is there under its relative path with its bytes, and nothing else is.
C18_RoundTrip ==
    fx.op = "round trip" =>
        /\ ~Raised(fx.exc)
        /\ \A o \in Originals(fx.inp.files) :
               ContentAt(fx.written, OutputDir \o o.rel) = o.data
        /\ {fx.written[k].path : k \in DOMAIN fx.written}
               = {OutputDir \o o.rel : o \in Originals(fx.inp.files)}

\* The round trip of inputs with distinct base names, created without a
\* password: the originals come back.
C18_DistinctNamesRoundTrip ==
    (/\ fx.op = "round trip"
     /\ fx.inp.password = ""
     /\ \A i, j \in DOMAIN fx.inp.files :
            PathName(fx.inp.files[i]) = PathName(fx.inp.files[j])
                => fx.inp.files[i] = fx.inp.files[j])
        => /\ ~Raised(fx.exc)
           /\ \A o \in Originals(fx.inp.files) :
                  ContentAt(fx.written, OutputDir \o o.rel) = o.data

\* create_archive of d1/a.txt and d2/a.txt without a password, then
\* extract_archive: one a.txt, holding the bytes of d2/a.txt.
C18_SameNameOverwritten ==
    /\ fx.op = "round trip"
    /\ fx.inp.password = ""
    /\ fx.inp.files = <<(<<"d1", "a.txt">>), (<<"d2", "a.txt">>)>>
    /\ ~Raised(fx.exc)
    /\ Len(fx.written) = 2
    /\ ContentAt(fx.written, OutputDir \o <<"a.txt">>) = "2"

\* A directory and a file come back from the round trip.
C18_DistinctNamesWitness ==
    /\ fx.op = "round trip"
    /\ fx.inp.password = ""
    /\ fx.inp.files = <<(<<"d3">>), (<<"d1", "a.txt">>)>>
    /\ ContentAt(fx.written, OutputDir \o <<"d3", "c.txt">>) = "3"
    /\ ContentAt(fx.written, OutputDir \o <<"a.txt">>) = "1"

\* C21: when _check_result raises a failure that carries the slot's detail,
\* the read of the slot is the first native call the layer makes after the
\* failing call: nothing is called between the failure and the read.
C21_DetailReadFirst ==
    (check.done /\ check.exc.kind = "SevenZipError")
        => /\ check.calls # <<>>
           /\ check.calls[1] = "sz_get_last_error_message"

\* The same for sevenzip.py alone, whose _check_result reads the slot first.
C21_PyDetailReadFirst ==
    (check.done /\ check.binding = "sevenzip" /\ check.result # SzResult_OK)
        => check.calls = <<"sz_get_last_error_message">>


\* C22: with one slot for the process and two threads on different handles,
\* the detail of a failure raised in a thread is the detail its own failing
\* call left in the slot.
C22_OwnDetail ==
    \A t \in DOMAIN threads.of :
        (threads.of[t].pc = "done" /\ threads.of[t].exc.kind = "SevenZipError")
            => threads.of[t].exc.detail = threads.of[t].d

\* A thread whose call and check are not separated by a failing call of the
\* other thread carries its own detail: the failure of thread 1 when
\* thread 2 has not called yet or did not fail.
C22_OwnDetailWhenAlone ==
    (/\ threads.of # <<>>
     /\ threads.of[1].pc = "done"
     /\ threads.of[1].exc.kind = "SevenZipError"
     /\ (threads.of[2].pc = "call" \/ threads.of[2].res = SzResult_OK))
        => threads.of[1].exc.detail = ThreadDetail(1)


\* C23: handles are independently owned.  In every step of a method of one
\* instance the other instance keeps its handle and its finalized flag, no
\* native call of the step is given the other's handle or produces it, and
\* what the engine holds for the other's handle stays as it was.
C23_HandlesIndependent ==
    [][\A u \in DOMAIN threads.of :
           u # threads'.actor =>
               /\ threads'.of[u] = threads.of[u]
               /\ threads.of[u].w.handle # 0 =>
                      /\ native'[threads.of[u].w.handle] = native[threads.of[u].w.handle]
                      /\ \A k \in DOMAIN threads'.issued :
                             /\ threads'.issued[k].h # threads.of[u].w.handle
                             /\ threads'.issued[k].out # threads.of[u].w.handle]_vars

\* The Writer adds a file while the Archive is open: both hold a handle and
\* the step's call went to the Writer's.
C23_Witness ==
    /\ threads.of # <<>>
    /\ threads.actor = 2
    /\ threads.of[1].kind = "Archive"
    /\ threads.of[2].kind = "Writer"
    /\ threads.of[1].w.handle = 1
    /\ threads.of[2].w.handle = 2
    /\ threads.issued = <<CallWith("sz_writer_add_file", 2, 0, <<"d1", "a.txt">>, "a.txt")>>

C25_SevenZipFormatTag ==
    /\ (fx.op = "SevenZip.compress" /\ fx.inp.format = "7z" /\ fx.inp.level = "normal")
           => /\ fx.issued # <<>>
              /\ fx.issued[1].fn = "sz_writer_create"
              /\ fx.issued[1].arg = <<Ffi_Format_SEVENZIP>>
    /\ (fx.op = "SevenZip.is_format_supported" /\ fx.inp.format = "7z")
           => fx.issued = <<CallWith("sz_is_format_supported", 0, 0, <<Ffi_Format_SEVENZIP>>, "")>>

\* Called with the member's own name the two do reach the engine with the
\* tag of the 7z format.
C25_SevenZipByMemberName ==
    /\ (fx.op = "SevenZip.compress" /\ fx.inp.format = "sevenzip" /\ fx.inp.level = "normal")
           => /\ fx.issued # <<>>
              /\ fx.issued[1].arg = <<Ffi_Format_SEVENZIP>>
    /\ (fx.op = "SevenZip.is_format_supported" /\ fx.inp.format = "sevenzip")
           => /\ fx.issued # <<>>
              /\ fx.issued[1].arg = <<Ffi_Format_SEVENZIP>>
              /\ fx.val = <<fx.inp.answer # 0>>


\* The calls SevenZip.compress makes when nothing fails, from its arguments.
ExpectedCompress(inp, h) ==
    <<"sz_writer_create", "sz_writer_set_compression_level">>
    \o (IF inp.password # "" THEN <<"sz_writer_set_password">> ELSE <<>>)
    \o <<IF inp.source \in SourceDirs THEN "sz_writer_add_directory" ELSE "sz_writer_add_file",
         "sz_writer_finalize", "sz_writer_destroy">>

\* The functions called, in order.
FunctionsOf(issued) == [k \in DOMAIN issued |-> issued[k].fn]

\* C30: the native calls of SevenZip.compress are, in this order, create,
\* set_compression_level, set_password (only when a password is given), one
\* add, finalize and destroy, cut short at the first call that fails; once
\* create has succeeded sz_writer_destroy is called exactly once, as the last
\* call and with the handle created, however compress is left; and
\* sz_writer_finalize is called only when every earlier call succeeded.
C30_CompressCallOrder ==
    (fx.op = "SevenZip.compress" /\ fx.issued # <<>>) =>
        LET fns == FunctionsOf(fx.issued)
            all == ExpectedCompress(fx.inp, fx.eng.handle)
            n == Len(fns)
        IN  /\ fns[1] = "sz_writer_create"
            /\ fx.issued[1].out = 0 => (n = 1 /\ Raised(fx.exc))
            /\ fx.issued[1].out # 0 =>
                   /\ fns[n] = "sz_writer_destroy"
                   /\ PositionsOf(fx.issued, "sz_writer_destroy") = {n}
                   /\ fx.issued[n].h = fx.issued[1].out
                   /\ SubSeq(fns, 1, n - 1) = SubSeq(all, 1, n - 1)
                   /\ \A k \in 2 .. n : fx.issued[k].h = fx.issued[1].out
                   /\ native[fx.issued[1].out].releases = 1
                   /\ ~Raised(fx.exc) => fns = all
                   /\ PositionsOf(fx.issued, "sz_writer_finalize") # {}
                          => SubSeq(fns, 1, n - 1) = SubSeq(all, 1, Len(all) - 1)

\* compress with a password whose add call fails: create, level, password,
\* add, destroy, and the failure goes on to the caller.
C30_Witness ==
    /\ fx.op = "SevenZip.compress"
    /\ fx.inp.password = "pw"
    /\ fx.inp.fault.at = 4
    /\ Raised(fx.exc)
    /\ FunctionsOf(fx.issued) = <<"sz_writer_create", "sz_writer_set_compression_level",
                                  "sz_writer_set_password", "sz_writer_add_file",
                                  "sz_writer_destroy">>

\* The native calls among `issued`: the invocations of the callback left
\* out.
NativeOf(issued) == SelectSeq(issued, LAMBDA c : c.fn # "progress_callback")

\* C29: the native calls of SevenZip.extract are open, set_password (only
\* when a non-empty password is given, with that password), extract_all and
\* close, in this order; when open fails nothing else is called; when
\* set_password fails extract_all is not called and close still is.
C29_ExtractCallOrder ==
    fx.op = "SevenZip.extract" =>
        LET calls == NativeOf(fx.issued)
            fns == FunctionsOf(calls)
            pw == IF fx.inp.password # "" THEN <<"sz_archive_set_password">> ELSE <<>>
        IN  /\ fns[1] = "sz_archive_open"
            /\ calls[1].out = 0 => (fns = <<"sz_archive_open">> /\ Raised(fx.exc))
            /\ calls[1].out # 0 =>
                   /\ fns \in {<<"sz_archive_open">> \o pw \o <<"sz_archive_close">>,
                                <<"sz_archive_open">> \o pw
                                    \o <<"sz_archive_extract_all", "sz_archive_close">>}
                   /\ \A k \in 2 .. Len(calls) : calls[k].h = calls[1].out
                   /\ fx.inp.password # "" => calls[2].arg = <<fx.inp.password>>
                   /\ PositionsOf(calls, "sz_archive_extract_all") = {}
                          <=> (fx.inp.password # "" /\ fx.inp.fault.at = 2)
                   /\ PositionsOf(calls, "sz_archive_extract_all") = {} => Raised(fx.exc)

\* set_password fails: open, set_password and close were called, and the
\* failure goes on to the caller.
C29_Witness ==
    /\ fx.op = "SevenZip.extract"
    /\ fx.inp.password = "pw"
    /\ fx.inp.fault.at = 2
    /\ Raised(fx.exc)
    /\ FunctionsOf(fx.issued)
           = <<"sz_archive_open", "sz_archive_set_password", "sz_archive_close">>

\* C26: the compression ratio get_archive_info reports is 0 whenever
\* total_size is 0, whatever packed_size is, and packed_size / total_size
\* otherwise; when the engine answered and the format has a member, a
\* dictionary is returned and nothing is raised.
C26_RatioZeroWhenEmpty ==
    fx.op = "SevenZip.get_archive_info" =>
        /\ \A k \in DOMAIN fx.val :
               /\ fx.val[k].total_size = TotalSize(fx.inp.arc.items)
               /\ fx.val[k].packed_size = fx.inp.packed
               /\ fx.val[k].total_size = 0 => fx.val[k].compression_ratio = <<0>>
               /\ fx.val[k].total_size > 0
                      => fx.val[k].compression_ratio
                             = <<fx.val[k].packed_size, fx.val[k].total_size>>
        /\ (fx.inp.fault.at = 0 /\ fx.inp.fmt \in 0 .. Ffi_Format_XZ)
               => (~Raised(fx.exc) /\ Len(fx.val) = 1)

\* An archive without bytes to unpack whose packed size is not 0: the ratio
\* reported is 0.
C26_Witness ==
    /\ fx.op = "SevenZip.get_archive_info"
    /\ Len(fx.val) = 1
    /\ fx.val[1].total_size = 0
    /\ fx.val[1].packed_size = 1
    /\ fx.val[1].compression_ratio = <<0>>

C28_DefaultArchiveName ==
    (threads.inp # <<>> /\ threads.issued # <<>>) =>
        /\ Len(threads.issued) = 1
        /\ threads.issued[1].fn = "sz_writer_add_file"
        /\ threads.issued[1].arg = threads.inp.file_path
        /\ threads.inp.archive_path = "" => threads.issued[1].name = "a.txt"
        /\ threads.inp.archive_path # ""
               => threads.issued[1].name = threads.inp.archive_path

\* add_file("d2/a.txt") has reached the engine with the archive path a.txt.
C28_Witness ==
    /\ threads.inp # <<>>
    /\ threads.inp.file_path = <<"d2", "a.txt">>
    /\ threads.inp.archive_path = ""
    /\ threads.issued # <<>>
    /\ threads.issued[1].name = "a.txt"

\* add_file("d1/a.txt", "b.txt") has reached the engine with the archive
\* path b.txt.
C28_GivenNameWitness ==
    /\ threads.inp # <<>>
    /\ threads.inp.archive_path = "b.txt"
    /\ threads.issued # <<>>
    /\ threads.issued[1].name = "b.txt"


(***************************************************************************)
(* A failed Writer operation.                                              *)
(***************************************************************************)
\* The operations of a writer that hand a native result to _check_result.
CheckedWriterOps == Mutators \cup {"Writer.finalize"}

\* The most recent operation was one of them, reached the engine and raised
\* on the engine's non-success answer.
FailedOnNativeCode ==
    /\ outcome.op \in CheckedWriterOps
    /\ outcome.issued # <<>>
    /\ outcome.res # SzResult_OK
    /\ Raised(outcome.exc)

\* C31: after add_file, add_directory, add_memory, set_password,
\* set_compression_level or finalize raised on a non-success native code, the
\* writer is as it was before the call: it still holds its handle and is not
\* marked finalized, so a mutating call and a retried finalize made next
\* each issue their native call on that handle.
C31_FailedOperationKeepsState ==
    FailedOnNativeCode
        => /\ writer = outcome.pre
           /\ writer.handle # 0
           /\ ~writer.finalized
           /\ \A res \in LifecycleResults, d \in LifecycleDetails :
                /\ Writer_finalize(writer, res, d, lastError).issued
                        = <<FinalizeOf(writer.handle)>>
                /\ Writer_set_password(writer, "pw", res, d, lastError).issued
                        = <<CallWith("sz_writer_set_password", writer.handle, 0, <<"pw">>, "")>>

\* finalize() reached the engine, the engine answered WRITE_ERROR and the
\* call raised SevenZipError.
C31_Witness ==
    /\ outcome.op = "Writer.finalize"
    /\ outcome.issued = <<FinalizeOf(outcome.pre.handle)>>
    /\ outcome.res = SzResult_WRITE_ERROR
    /\ outcome.exc.kind = "SevenZipError"

\* A mutating call failed the same way.
C31_MutatorWitness ==
    /\ outcome.op = "Writer.add_file"
    /\ outcome.issued # <<>>
    /\ outcome.res = SzResult_WRITE_ERROR
    /\ outcome.exc.kind = "SevenZipError"


(***************************************************************************)
(* extract_archive, item by item.                                          *)
(***************************************************************************)
IsExtraction(c) == c.fn = "sz_archive_extract_to_memory"
\* The native calls of the reader that return a result code.
IsReaderStep(c) ==
    c.fn \in {"sz_archive_get_item_count", "sz_archive_get_item_info",
              "sz_archive_extract_to_memory"}
\* The indices extract_to_memory was called with, in the order of the calls.
ExtractedOf(issued) ==
    LET s == SelectSeq(issued, IsExtraction) IN [j \in DOMAIN s |-> s[j].arg[1]]

\* The indices (from 0) of the non-directory items of an archive, ascending.
RECURSIVE FileIndicesFrom(_, _)
FileIndicesFrom(arc, i) ==
    IF i >= Len(arc.items) THEN <<>>
    ELSE (IF arc.items[i + 1].is_dir THEN <<>> ELSE <<i>>) \o FileIndicesFrom(arc, i + 1)

\* The file extract_archive writes for item i of an archive.
WrittenFor(arc, i) ==
    [path |-> PathJoin(OutputDir, arc.items[i + 1].path), data |-> arc.items[i + 1].data]

\* C32: extract_archive calls extract_to_memory with the indices of the
\* non-directory items, each once and in ascending order, and with no index
\* of a directory.  It returns only when every one of them has been
\* extracted and written.  When it raises, the calls made are those of the
\* files up to some item k and none after it, and the files written are
\* those of the items before k (and that of k when the failure came later,
\* in the reading of the next item's record or in the close).
C32_ExtractsFilesInOrder ==
    fx.op = "extract_archive" =>
        LET files == FileIndicesFrom(fx.inp.arc, 0)
            ex == ExtractedOf(fx.issued)
            n == Len(ex)
            body == SelectSeq(fx.issued, IsReaderStep)
            atExtraction == body # <<>> /\ IsExtraction(body[Len(body)])
        IN  /\ n <= Len(files)
            /\ ex = SubSeq(files, 1, n)
            /\ ~Raised(fx.exc) => n = Len(files) /\ Len(fx.written) = n
            /\ (Raised(fx.exc) /\ atExtraction) => Len(fx.written) = n - 1
            /\ (Raised(fx.exc) /\ ~atExtraction) => Len(fx.written) = n
            /\ \A j \in DOMAIN fx.written : fx.written[j] = WrittenFor(fx.inp.arc, ex[j])

\* An archive of two files: the first file was extracted and written, the
\* write of the second failed; the error left extract_archive with the
\* first file in place.
C32_Witness ==
    /\ fx.op = "extract_archive"
    /\ ExtractedOf(fx.issued) = <<0, 1>>
    /\ fx.exc = OSError
    /\ fx.written = <<WrittenFor(fx.inp.arc, 0)>>

\* An archive of a directory and a file: only the file was extracted.
C32_DirectoryWitness ==
    /\ fx.op = "extract_archive"
    /\ Len(fx.inp.arc.items) = 2
    /\ fx.inp.arc.items[1].is_dir
    /\ ExtractedOf(fx.issued) = <<1>>
    /\ ~Raised(fx.exc)
    /\ fx.written = <<WrittenFor(fx.inp.arc, 1)>>

(***************************************************************************)
(* The compression level alone: writers are created and given a level, by  *)
(* the caller or by create_archive.                                        *)
(***************************************************************************)
\* create_archive of at most one input.
CreateShortArchive == CreateArchiveOf({files \in FileLists : Len(files) <= 1})

NextLevel ==
    \/ WriterCreate
    \/ WriterSetCompressionLevel
    \/ CreateShortArchive

SpecLevel == Init /\ [][NextLevel]_vars

(***************************************************************************)
(* The compression level.                                                  *)
(***************************************************************************)
\* The level names in ascending order of strength.
LevelNames == <<"none", "fast", "normal", "maximum", "ultra">>
\* The ordinal the engine is to receive for a level a caller asks for: the
\* position of its name in the order (from 0), Normal's for any other name,
\* and a member's own value.
RequestedOrdinal(level) ==
    IF ~IsStr(level) THEN level.value
    ELSE IF \E k \in DOMAIN LevelNames : LevelNames[k] = Lower(level.str)
    THEN (CHOOSE k \in DOMAIN LevelNames : LevelNames[k] = Lower(level.str)) - 1
    ELSE 2

\* C33: a call of set_compression_level that reaches the engine passes it
\* the ordinal of the level asked for (none 0 < fast 1 < normal 2 < maximum 3
\* < ultra 4), Normal's for a name that is none of these, and a member's
\* value as it is; create_archive called without a level sets Normal.
C33_LevelOrdinalPassedThrough ==
    /\ (outcome.op = "Writer.set_compression_level" /\ outcome.issued # <<>>)
        => outcome.issued =
               <<CallWith("sz_writer_set_compression_level", outcome.pre.handle, 0,
                          <<RequestedOrdinal(outcome.inp)>>, "")>>
    /\ (fx.op = "create_archive" /\ ~fx.inp.levelGiven /\ Len(fx.issued) >= 2)
        => /\ fx.issued[2].fn = "sz_writer_set_compression_level"
           /\ fx.issued[2].arg = <<2>>

\* create_archive was called without a level and reached the engine with
\* Normal; later set_compression_level("best") on a writer reached the
\* engine with Normal as well.
C33_Witness ==
    /\ fx.op = "create_archive" /\ ~fx.inp.levelGiven
    /\ Len(fx.issued) >= 2 /\ fx.issued[2].arg = <<2>>
    /\ outcome.op = "Writer.set_compression_level"
    /\ outcome.inp = Str("best")
    /\ outcome.issued # <<>> /\ outcome.issued[1].arg = <<2>>

\* A name in upper case reached the engine with the ordinal of its level.
C33_OrderWitness ==
    /\ outcome.op = "Writer.set_compression_level"
    /\ outcome.inp = Str("Ultra")
    /\ outcome.issued # <<>> /\ outcome.issued[1].arg = <<4>>


(***************************************************************************)
(* The numberings of the two bindings, side by side: one result code       *)
(* decoded by SzResult(result) of each binding, one format name encoded by *)
(* each binding on its way to sz_writer_create.                            *)
(***************************************************************************)
\* No member: SzResult(result) raises ValueError.
NoName == "ValueError"

\* SzResult(result).name of sevenzip.py.
SzResultName(result) ==
    CASE result = 0 -> "OK"
      [] result = 1 -> "FAIL"
      [] result = 2 -> "OUT_OF_MEMORY"
      [] result = 3 -> "FILE_NOT_FOUND"
      [] result = 4 -> "ACCESS_DENIED"
      [] result = 5 -> "INVALID_ARGUMENT"
      [] result = 6 -> "UNSUPPORTED_FORMAT"
      [] result = 7 -> "CORRUPTED_ARCHIVE"
      [] result = 8 -> "WRONG_PASSWORD"
      [] result = 9 -> "UNKNOWN_ERROR"
      [] result = 10 -> "INDEX_OUT_OF_RANGE"
      [] result = 11 -> "BUFFER_TOO_SMALL"
      [] result = 12 -> "OPERATION_CANCELLED"
      [] result = 13 -> "WRITE_ERROR"
      [] result = 14 -> "READ_ERROR"
      [] result = 15 -> "NOT_IMPLEMENTED"
      [] result = 16 -> "DISK_FULL"
      [] OTHER -> NoName

\* SzResult of sevenzip_ffi.py numbered as that of sevenzip.py.
FfiResultName_AsSevenzip(result) == SzResultName(result)

\* SzResult(result).name of sevenzip_ffi.py.
FfiResultName(result) ==
    CASE result = 0 -> "OK"
      [] result = 1 -> "FAIL"
      [] result = 2 -> "OUT_OF_MEMORY"
      [] result = 3 -> "INVALID_ARGUMENT"
      [] result = 4 -> "FILE_NOT_FOUND"
      [] result = 5 -> "ACCESS_DENIED"
      [] result = 6 -> "UNSUPPORTED_FORMAT"
      [] result = 7 -> "CORRUPTED_ARCHIVE"
      [] result = 8 -> "WRONG_PASSWORD"
      [] result = 9 -> "NOT_IMPLEMENTED"
      [] result = 10 -> "ABORTED"
      [] result = 11 -> "DISK_FULL"
      [] result = 12 -> "INTERNAL_ERROR"
      [] result = 13 -> "BUSY"
      [] result = 14 -> "INVALID_STATE"
      [] OTHER -> NoName

\* format.lower() of Writer.create, on the names callers pass.
LowerFormat(s) ==
    CASE s = "ZIP" -> "zip"
      [] s = "Tar" -> "tar"
      [] OTHER -> s

\* The keys of format_map of Writer.create.
FormatMapKeys == {"7z", "sevenzip", "zip", "tar", "gzip", "gz", "bzip2", "bz2", "xz"}

\* format_map.get(format.lower(), SzFormat.SEVEN_Z) of Writer.create: the
\* ordinal sevenzip.py passes to sz_writer_create for a format name.
FormatOf(format) ==
    CASE LowerFormat(format) \in {"7z", "sevenzip"} -> 0
      [] LowerFormat(format) = "zip" -> 1
      [] LowerFormat(format) = "tar" -> 2
      [] LowerFormat(format) \in {"gzip", "gz"} -> 3
      [] LowerFormat(format) \in {"bzip2", "bz2"} -> 4
      [] LowerFormat(format) = "xz" -> 5
      [] OTHER -> 0

\* The ordinal sevenzip_ffi.py passes to sz_writer_create for a format
\* name: getattr(SzFormat, format.upper()), -1 for AttributeError.
FfiFormatOrdinal(format) == SzFormatMember(Upper(format))

\* The format names callers pass.
FormatNames ==
    {"7z", "sevenzip", "zip", "ZIP", "tar", "Tar", "gzip", "gz", "bzip2", "bz2", "xz", "rar",
     "auto"}

\* What is put to both bindings: a result code or a format name.
NumberingInputs ==
    [table : {"SzResult"}, code : NativeResults] \cup [table : {"SzFormat"}, name : FormatNames]

\* The input and what each binding made of it (<<>>: not asked yet).
Numbering(inp, py, ffi) ==
    [NoRun EXCEPT !.op = "numbering", !.inp = inp, !.val = [py |-> py, ffi |-> ffi]]

InitNumbering ==
    /\ InitWrappers
    /\ check = NoCheck
    /\ threads = NoThreads
    /\ fx \in {Numbering(inp, <<>>, <<>>) : inp \in NumberingInputs}

\* One binding is asked.
Asked(table, binding, answer) ==
    /\ fx.op = "numbering"
    /\ fx.inp.table = table
    /\ fx.val[binding] = <<>>
    /\ fx' = [fx EXCEPT !.val[binding] = <<answer>>]
    /\ UNCHANGED <<archive, writer, scope, whist, nextHandle, native, lastError, outcome,
                   check, threads>>

PyDecodesResult ==
    fx.inp.table = "SzResult" /\ Asked("SzResult", "py", SzResultName(fx.inp.code))
FfiDecodesResult ==
    fx.inp.table = "SzResult" /\ Asked("SzResult", "ffi", FfiResultName(fx.inp.code))
PyEncodesFormat ==
    fx.inp.table = "SzFormat" /\ Asked("SzFormat", "py", FormatOf(fx.inp.name))
FfiEncodesFormat ==
    fx.inp.table = "SzFormat" /\ Asked("SzFormat", "ffi", FfiFormatOrdinal(fx.inp.name))

NextNumbering ==
    \/ PyDecodesResult
    \/ FfiDecodesResult
    \/ PyEncodesFormat
    \/ FfiEncodesFormat

SpecNumbering == InitNumbering /\ [][NextNumbering]_vars

\* Both bindings have been asked.
BothAsked(table) ==
    fx.op = "numbering" /\ fx.inp.table = table /\ fx.val.py # <<>> /\ fx.val.ffi # <<>>

\* C34: the numberings of the two bindings disagree.  A result code that
\* either binding decodes to INVALID_ARGUMENT is decoded to an error of
\* another name by the other, and a format name both bindings know (a key of
\* sevenzip.py's format_map and a member of sevenzip_ffi.py's SzFormat) is
\* encoded to two different ordinals.
C34_NumberingsDisagree ==
    /\ (BothAsked("SzResult") /\ "INVALID_ARGUMENT" \in {fx.val.py[1], fx.val.ffi[1]})
        => fx.val.py # fx.val.ffi
    /\ (BothAsked("SzFormat") /\ LowerFormat(fx.inp.name) \in FormatMapKeys
                              /\ fx.val.ffi[1] # -1)
        => fx.val.py # fx.val.ffi

\* Code 3 is FILE_NOT_FOUND to sevenzip.py and INVALID_ARGUMENT to
\* sevenzip_ffi.py.
C34_Witness ==
    /\ BothAsked("SzResult")
    /\ fx.inp.code = 3
    /\ fx.val.py = <<"FILE_NOT_FOUND">>
    /\ fx.val.ffi = <<"INVALID_ARGUMENT">>

\* "zip" reaches the engine as 1 from sevenzip.py and as 2 from
\* sevenzip_ffi.py.
C34_FormatWitness ==
    /\ BothAsked("SzFormat")
    /\ fx.inp.name = "zip"
    /\ fx.val.py = <<1>>
    /\ fx.val.ffi = <<2>>


(***************************************************************************)
(* The item records of SevenZip.list_items.                                *)
(***************************************************************************)
\* The positions of `issued` at which call c was made.
PlacesOf(issued, c) == {k \in 1 .. Len(issued) : issued[k] = c}
\* The positions at which the record of item i was asked for.
AskedAt(issued, i) ==
    {k \in 1 .. Len(issued) :
        issued[k].fn = "sz_archive_get_item_info" /\ issued[k].arg = <<i>>}

\* C35: in SevenZip.list_items, the record of every item the engine gave
\* (sz_archive_get_item_info answered OK) is read into the dictionary and
\* then freed by exactly one sz_item_info_free, whether or not the reading
\* raised; it is not read after the free, and the free comes before
\* sz_archive_close.  A record the engine did not give is neither read nor
\* freed.
C35_RecordFreedOnceAfterCopy ==
    fx.op = "SevenZip.list_items" =>
        \A i \in 0 .. MaxItems :
            LET asked == AskedAt(fx.issued, i)
                reads == PlacesOf(fx.issued, ReadOf(i))
                frees == PlacesOf(fx.issued, FreeOf(i))
                closes == PositionsOf(fx.issued, "sz_archive_close")
                given == asked # {} /\ fx.inp.fault.at # 3 + i
            IN  /\ Cardinality(asked) <= 1
                /\ given => /\ Cardinality(frees) = 1
                            /\ reads # {}
                            /\ \A a \in asked, r \in reads, f \in frees, c \in closes :
                                   a < r /\ r < f /\ f < c
                            /\ closes # {}
                /\ ~given => reads = {} /\ frees = {}

\* Two records were given; the path of the second did not decode: both were
\* freed, the second before the error left list_items, and the handle was
\* closed after that.
C35_Witness ==
    /\ fx.op = "SevenZip.list_items"
    /\ fx.exc = UnicodeDecodeError
    /\ Cardinality(PlacesOf(fx.issued, FreeOf(0))) = 1
    /\ Cardinality(PlacesOf(fx.issued, FreeOf(1))) = 1
    /\ fx.issued[Len(fx.issued)].fn = "sz_archive_close"
    /\ fx.issued[Len(fx.issued) - 1] = FreeOf(1)

====
